---- MODULE Spec2Model ----
(***************************************************************************)
(* A model of the task recognizer (parseTaskLine) and the filter/query     *)
(* evaluator (applyFilter, parseQuery, queryTasks) of obsidian-tasks-mcp.  *)
(*                                                                         *)
(* A JavaScript string is modelled as a sequence of UTF-16 code units.     *)
(* A code unit is written as a one-character TLA+ string when it is a      *)
(* printable ASCII character, and as a name otherwise:                     *)
(*   "TAB" "LF" "CR" "NBSP" "U2028"   white space / line terminators       *)
(*   "U23EB" (double-up arrow, high)  "U23EC" (double-down arrow, lowest)  *)
(*   "U23F3" (hourglass, scheduled)   "U2795" (heavy plus, created)        *)
(*   "UD83D"                          the high surrogate of the emoji      *)
(*   "UDCC5" "UDDD3"                  low surrogates of the due glyphs     *)
(*   "UDD3C" "UDD3D"                  low surrogates of medium / low       *)
(*   "UDEEB" "UDD01"                  low surrogates of start / recurrence *)
(*   "UFE0F"                          variation selector 16                *)
(***************************************************************************)
EXTENDS Integers, Sequences, FiniteSets, TLC

VARIABLES
  op,                \* the operation that produced this state
  line,              \* parseTaskLine: the line argument
  filePath,          \* parseTaskLine: the filePath argument
  lineNumber,        \* parseTaskLine: the lineNumber argument
  task,              \* parseTaskLine's return value / applyFilter's task argument
  rendered,          \* taskToString's return value
  hashTagsLastIndex, \* TaskRegex.hashTags.lastIndex (static, shared by all calls)
  earlier,           \* an earlier parseTaskLine call, kept for comparison
  filter,            \* applyFilter: the filter argument
  verdict,           \* applyFilter's return value
  parts,             \* the pieces the line, filter or query argument was built from;
                     \* findAllTasks: the files findAllMarkdownFiles found
  today,             \* moment().format('YYYY-MM-DD')
  tasks,             \* queryTasks: the tasks argument
  queryText,         \* queryTasks: the queryText argument
  selected,          \* queryTasks' return value
  pending,           \* findAllTasks: the files not yet read
  links,             \* the file system: where the vault's symbolic link points
  nodeEnv,           \* process.env.NODE_ENV
  request,           \* the tool call: tool name and arguments
  response,          \* the handler's return value
  scanned,           \* the directories handed to findAllTasks
  readFiles          \* the files handed to fs.readFile

vars == <<op, line, filePath, lineNumber, task, rendered, hashTagsLastIndex,
          earlier, filter, verdict, parts, today, tasks, queryText, selected,
          pending, links, nodeEnv, request, response, scanned, readFiles>>

\* the variables of the server around the parser
serverVars == <<pending, links, nodeEnv, request, response, scanned, readFiles>>

----------------------------------------------------------------------------
(* Code units and character classes *)

\* \s of a JavaScript regular expression (the members the model uses)
WhiteSpace == {" ", "TAB", "LF", "CR", "VT", "FF", "NBSP", "U2028", "U2029", "UFEFF"}

\* what "." does not match
LineTerminators == {"LF", "CR", "U2028", "U2029"}

Digits == {"0", "1", "2", "3", "4", "5", "6", "7", "8", "9"}

HighSurrogates == {"UD83D", "UD83E"}

LowSurrogates == {"UDCC5", "UDDD3", "UDD3C", "UDD3D", "UDEEB", "UDD01"}

UpperCase == <<"A", "B", "C", "D", "E", "F", "G", "H", "I", "J", "K", "L", "M",
               "N", "O", "P", "Q", "R", "S", "T", "U", "V", "W", "X", "Y", "Z">>

LowerCase == <<"a", "b", "c", "d", "e", "f", "g", "h", "i", "j", "k", "l", "m",
               "n", "o", "p", "q", "r", "s", "t", "u", "v", "w", "x", "y", "z">>

----------------------------------------------------------------------------
(* String primitives *)

Undefined == [defined |-> FALSE, value |-> <<>>]

Defined(v) == [defined |-> TRUE, value |-> v]

\* the first index j >= i at which s has no member of set (Len(s)+1 when none)
SkipWhile(s, i, set) ==
  CHOOSE j \in i..(Len(s) + 1) :
    /\ \A k \in i..(j - 1) : s[k] \in set
    /\ (j = Len(s) + 1 \/ s[j] \notin set)

\* the first index j >= i at which s has a member of set (Len(s)+1 when none)
SkipUntil(s, i, set) ==
  CHOOSE j \in i..(Len(s) + 1) :
    /\ \A k \in i..(j - 1) : s[k] \notin set
    /\ (j = Len(s) + 1 \/ s[j] \in set)

\* s has the code units of pat at index i
HasAt(s, i, pat) ==
  /\ i >= 1
  /\ i + Len(pat) - 1 <= Len(s)
  /\ \A k \in 1..Len(pat) : s[i + k - 1] = pat[k]

\* String.prototype.startsWith
StartsWith(s, pat) == HasAt(s, 1, pat)

\* String.prototype.indexOf from index i, 1-based; 0 when pat does not occur
IndexOfFrom(s, pat, i) ==
  IF \E j \in i..(Len(s) - Len(pat) + 1) : HasAt(s, j, pat)
  THEN CHOOSE j \in i..(Len(s) - Len(pat) + 1) :
         HasAt(s, j, pat) /\ \A k \in i..(j - 1) : ~HasAt(s, k, pat)
  ELSE 0

\* String.prototype.includes
Includes(s, pat) == IndexOfFrom(s, pat, 1) # 0

\* String.prototype.substring(from), 0-based from
Substring(s, from) == SubSeq(s, from + 1, Len(s))

\* String.prototype.trim
Trim(s) ==
  LET a == SkipWhile(s, 1, WhiteSpace)
      b == IF a > Len(s) THEN a - 1
           ELSE CHOOSE j \in a..Len(s) :
                  s[j] \notin WhiteSpace /\ \A k \in (j + 1)..Len(s) : s[k] \in WhiteSpace
  IN SubSeq(s, a, b)

ToLowerUnit(c) ==
  IF \E k \in 1..26 : UpperCase[k] = c
  THEN LowerCase[CHOOSE k \in 1..26 : UpperCase[k] = c]
  ELSE c

\* String.prototype.toLowerCase
ToLowerCase(s) == [k \in 1..Len(s) |-> ToLowerUnit(s[k])]

----------------------------------------------------------------------------
(* TaskRegex *)

\* indentationRegex /^([\s\t>]*)/ : the class of its characters
IndentationClass == WhiteSpace \cup {">"}

\* listMarkerRegex /([-*+]|[0-9]+[.)])/ : the index after the list marker that
\* starts at i, 0 when none starts there
ListMarkerEnd(s, i) ==
  IF i > Len(s) THEN 0
  ELSE IF s[i] \in {"-", "*", "+"} THEN i + 1
  ELSE IF s[i] \in Digits
       THEN LET j == SkipWhile(s, i, Digits)
            IN IF j <= Len(s) /\ s[j] \in {".", ")"} THEN j + 1 ELSE 0
  ELSE 0

\* "." under the u flag: the index after the code point at i, 0 when there is
\* none or it is a line terminator
DotEndUnicode(s, i) ==
  IF i > Len(s) \/ s[i] \in LineTerminators THEN 0
  ELSE IF s[i] \in HighSurrogates /\ i < Len(s) /\ s[i + 1] \in LowSurrogates THEN i + 2
  ELSE i + 1

\* variant: the status character is optional, /\[(.)?\]/u
CheckboxAt_OptionalCharacter(s, i) ==
  IF i > Len(s) \/ s[i] # "[" THEN [next |-> 0, from |-> 0, to |-> 0]
  ELSE LET j == DotEndUnicode(s, i + 1)
       IN IF j # 0 /\ j <= Len(s) /\ s[j] = "]"
          THEN [next |-> j + 1, from |-> i + 1, to |-> j - 1]
          ELSE IF i < Len(s) /\ s[i + 1] = "]"
          THEN [next |-> i + 2, from |-> i + 1, to |-> i]
          ELSE [next |-> 0, from |-> 0, to |-> 0]

\* checkboxRegex /\[(.)\]/u at index i: the indices of the status character,
\* and the index after the checkbox (next = 0 when no checkbox is at i)
CheckboxAt(s, i) ==
  IF i > Len(s) \/ s[i] # "[" THEN [next |-> 0, from |-> 0, to |-> 0]
  ELSE LET j == DotEndUnicode(s, i + 1)
       IN IF j # 0 /\ j <= Len(s) /\ s[j] = "]"
          THEN [next |-> j + 1, from |-> i + 1, to |-> j - 1]
          ELSE [next |-> 0, from |-> 0, to |-> 0]

\* line.match(TaskRegex.taskRegex): indentation, list marker, ' +', checkbox,
\* afterCheckboxRegex / *(.*)/u.  matched = FALSE stands for a null match.
TaskRegexMatch(s) ==
  LET i1 == SkipWhile(s, 1, IndentationClass)
      i2 == ListMarkerEnd(s, i1)
      i3 == IF i2 = 0 THEN 0 ELSE SkipWhile(s, i2, {" "})
      box == IF i3 = 0 \/ i3 = i2 THEN [next |-> 0, from |-> 0, to |-> 0]
             ELSE CheckboxAt(s, i3)
      i4 == IF box.next = 0 THEN 0 ELSE SkipWhile(s, box.next, {" "})
      i5 == IF i4 = 0 THEN 0 ELSE SkipUntil(s, i4, LineTerminators)
  IN IF box.next = 0
     THEN [matched |-> FALSE, g1 |-> <<>>, g2 |-> <<>>, g3 |-> <<>>, g4 |-> <<>>]
     ELSE [matched |-> TRUE,
           g1 |-> SubSeq(s, 1, i1 - 1),
           g2 |-> SubSeq(s, i1, i2 - 1),
           g3 |-> SubSeq(s, box.from, box.to),
           g4 |-> SubSeq(s, i4, i5 - 1)]

\* the characters a hashtag stops at: [^ !@#$%^&*(),.?":{}|<>]
HashTagStop == {" ", "!", "@", "#", "$", "%", "^", "&", "*", "(", ")", ",", ".",
                "?", "\"", ":", "{", "}", "|", "<", ">"}

\* hashTags /(^|\s)#[^ !@#$%^&*(),.?":{}|<>]+/ tried at index i: the index
\* after the match, 0 when it does not match at i
HashTagEndAt(s, i) ==
  LET h == IF i = 1 /\ HasAt(s, 1, <<"#">>) THEN 1
           ELSE IF i <= Len(s) /\ s[i] \in WhiteSpace /\ HasAt(s, i + 1, <<"#">>) THEN i + 1
           ELSE 0
      e == IF h = 0 THEN 0 ELSE SkipUntil(s, h + 1, HashTagStop)
  IN IF h = 0 \/ e = h + 1 THEN 0 ELSE e

\* RegExp.prototype.exec of the hashTags pattern, searching from index from:
\* the first match at or after it (found = FALSE: no match)
HashTagsExec(s, from) ==
  IF \E i \in from..Len(s) : HashTagEndAt(s, i) # 0
  THEN LET i == CHOOSE i \in from..Len(s) :
                  HashTagEndAt(s, i) # 0 /\ \A k \in from..(i - 1) : HashTagEndAt(s, k) = 0
       IN [found |-> TRUE, text |-> SubSeq(s, i, HashTagEndAt(s, i) - 1),
           next |-> HashTagEndAt(s, i)]
  ELSE [found |-> FALSE, text |-> <<>>, next |-> 1]

RECURSIVE HashTagsAllFrom(_, _)
\* every successive match of the hashTags pattern from index from on
HashTagsAllFrom(s, from) ==
  LET m == HashTagsExec(s, from)
  IN IF m.found THEN <<m.text>> \o HashTagsAllFrom(s, m.next) ELSE <<>>

\* variant: one RegExp.prototype.exec call, which starts at lastIndex and
\* leaves lastIndex after its match
HashTagsMatch_Exec(s, lastIndex) ==
  LET m == HashTagsExec(s, lastIndex + 1)
  IN [matches |-> IF m.found THEN <<m.text>> ELSE <<>>, lastIndex |-> m.next - 1]

\* description.match(TaskRegex.hashTags): String.prototype.match with a global
\* pattern sets lastIndex to 0, collects every match and leaves lastIndex at 0
HashTagsMatch(s, lastIndex) ==
  [matches |-> HashTagsAllFrom(s, 1), lastIndex |-> 0]

\* \d{4}-\d{2}-\d{2} at index i
DateAt(s, i) ==
  /\ i >= 1
  /\ i + 9 <= Len(s)
  /\ \A k \in {0, 1, 2, 3, 5, 6, 8, 9} : s[i + k] \in Digits
  /\ s[i + 4] = "-"
  /\ s[i + 7] = "-"

\* <marker>\s?(\d{4}-\d{2}-\d{2}) tried at index i: the index of the date, 0
\* when the pattern does not match at i
MarkedDateAt(s, i, marker) ==
  LET j == i + Len(marker)
  IN IF ~HasAt(s, i, marker) THEN 0
     ELSE IF j <= Len(s) /\ s[j] \in WhiteSpace /\ DateAt(s, j + 1) THEN j + 1
     ELSE IF DateAt(s, j) THEN j
     ELSE 0

\* s.match(/<one of markers>\s?(\d{4}-\d{2}-\d{2})/): group 1 of the leftmost
\* match, Undefined when there is none
MarkedDateMatch(s, markers) ==
  IF \E i \in 1..Len(s) : \E m \in markers : MarkedDateAt(s, i, m) # 0
  THEN LET i == CHOOSE i \in 1..Len(s) :
                  /\ \E m \in markers : MarkedDateAt(s, i, m) # 0
                  /\ \A k \in 1..(i - 1) : \A m \in markers : MarkedDateAt(s, k, m) = 0
           m == CHOOSE m \in markers : MarkedDateAt(s, i, m) # 0
           d == MarkedDateAt(s, i, m)
       IN Defined(SubSeq(s, d, d + 9))
  ELSE Undefined

\* dueDateRegex: without the u flag the class [calendar, spiral calendar + VS16]
\* is a class of code units: U+D83D, U+DCC5, U+DDD3, U+FE0F
DueDateMarkers == {<<"UD83D">>, <<"UDCC5">>, <<"UDDD3">>, <<"UFE0F">>}

ScheduledDateMarkers == {<<"U23F3">>}

StartDateMarkers == {<<"UD83D", "UDEEB">>}

CreatedDateMarkers == {<<"U2795">>}

RecurrenceMarker == <<"UD83D", "UDD01">>

\* variant: the rule runs to the end of the description
RecurrenceMatch_ToEnd(s) ==
  LET i == IndexOfFrom(s, RecurrenceMarker, 1)
      j == i + Len(RecurrenceMarker)
  IN IF i = 0 THEN Undefined
     ELSE Defined(SubSeq(s, IF j <= Len(s) /\ s[j] \in WhiteSpace THEN j + 1 ELSE j, Len(s)))

\* recurrenceRegex /<marker>\s?(.*?)(?=(\s|$))/ : group 1 of the leftmost match
RecurrenceMatch(s) ==
  LET i == IndexOfFrom(s, RecurrenceMarker, 1)
      j == i + Len(RecurrenceMarker)
      b == IF j <= Len(s) /\ s[j] \in WhiteSpace THEN j + 1 ELSE j
  IN IF i = 0 THEN Undefined
     ELSE Defined(SubSeq(s, b, SkipUntil(s, b, WhiteSpace) - 1))

\* the alternatives of /(double high)|(high)|(medium)|(low)|(lowest)/g, in order
PriorityAlternatives ==
  << <<"U23EB", "U23EB">>, <<"U23EB">>, <<"UD83D", "UDD3C">>, <<"UD83D", "UDD3D">>,
     <<"U23EC">> >>

\* the alternation tried at index i: the first alternative that matches there,
\* 0 when none does
PriorityAlternativeAt(s, i) ==
  IF \E a \in 1..Len(PriorityAlternatives) : HasAt(s, i, PriorityAlternatives[a])
  THEN CHOOSE a \in 1..Len(PriorityAlternatives) :
         /\ HasAt(s, i, PriorityAlternatives[a])
         /\ \A b \in 1..(a - 1) : ~HasAt(s, i, PriorityAlternatives[b])
  ELSE 0

RECURSIVE PriorityMatchesFrom(_, _)
\* description.match(/.../g) from index from on: the matched texts, in order
PriorityMatchesFrom(s, from) ==
  IF \E i \in from..Len(s) : PriorityAlternativeAt(s, i) # 0
  THEN LET i == CHOOSE i \in from..Len(s) :
                  /\ PriorityAlternativeAt(s, i) # 0
                  /\ \A k \in from..(i - 1) : PriorityAlternativeAt(s, k) = 0
           t == PriorityAlternatives[PriorityAlternativeAt(s, i)]
       IN <<t>> \o PriorityMatchesFrom(s, i + Len(t))
  ELSE <<>>

\* variant: the most severe marker present decides
PriorityOf_MostSevere(description) ==
  IF Includes(description, <<"U23EB", "U23EB">>) THEN Defined("highest")
  ELSE IF Includes(description, <<"U23EB">>) THEN Defined("high")
  ELSE IF Includes(description, <<"UD83D", "UDD3C">>) THEN Defined("medium")
  ELSE IF Includes(description, <<"UD83D", "UDD3D">>) THEN Defined("low")
  ELSE IF Includes(description, <<"U23EC">>) THEN Defined("lowest")
  ELSE Undefined

\* variant: the first marker itself is stored, not the level it stands for
PriorityOf_Marker(description) ==
  LET priorityMatches == PriorityMatchesFrom(description, 1)
  IN IF Len(priorityMatches) > 0 THEN Defined(priorityMatches[1]) ELSE Undefined

\* the priority of a description: the first marker found decides
PriorityOf(description) ==
  LET priorityMatches == PriorityMatchesFrom(description, 1)
  IN IF Len(priorityMatches) > 0
     THEN LET firstPriority == priorityMatches[1]
          IN IF firstPriority = <<"U23EB", "U23EB">> THEN Defined("highest")
             ELSE IF firstPriority = <<"U23EB">> THEN Defined("high")
             ELSE IF firstPriority = <<"UD83D", "UDD3C">> THEN Defined("medium")
             ELSE IF firstPriority = <<"UD83D", "UDD3D">> THEN Defined("low")
             ELSE IF firstPriority = <<"U23EC">> THEN Defined("lowest")
             ELSE Undefined
     ELSE Undefined

\* variant: every status character but x and X is an incomplete task
StatusOf_CompleteOrIncomplete(statusChar) ==
  IF statusChar \in {<<"x">>, <<"X">>} THEN "complete" ELSE "incomplete"

\* the status of a status character
StatusOf(statusChar) ==
  IF statusChar \in {<<"x">>, <<"X">>} THEN "complete"
  ELSE IF statusChar \in {<<"-">>} THEN "cancelled"
  ELSE IF statusChar \in {<<"/">>} THEN "in_progress"
  ELSE IF statusChar \in {<<" ">>, <<">">>, <<"<">>} THEN "incomplete"
  ELSE "non_task"

RECURSIVE ToDecimal(_)
\* the decimal digits of a natural number, as `${lineNumber}` writes them
ToDecimal(n) ==
  LET d == <<"0", "1", "2", "3", "4", "5", "6", "7", "8", "9">>
  IN IF n < 10 THEN <<d[n + 1]>> ELSE ToDecimal(n \div 10) \o <<d[(n % 10) + 1]>>

\* variant: a tag is listed once, where it first occurs
TagsOf_Unique(description, lastIndex) ==
  LET found == HashTagsAllFrom(description, 1)
      trimmed == [k \in 1..Len(found) |-> Trim(found[k])]
      firsts == {k \in 1..Len(trimmed) : \A j \in 1..(k - 1) : trimmed[j] # trimmed[k]}
      rank(k) == Cardinality({j \in firsts : j <= k})
  IN [n \in 1..Cardinality(firsts) |-> trimmed[CHOOSE k \in firsts : rank(k) = n]]

\* the tags of a description, with the hashTags pattern's lastIndex as it is
TagsOf(description, lastIndex) ==
  LET found == HashTagsMatch(description, lastIndex).matches
      trimmed == [k \in 1..Len(found) |-> Trim(found[k])]
  IN SelectSeq(trimmed, LAMBDA tag : Len(tag) > 0)

\* the fields of a task, given the match and the trimmed description
\* `${filePath}:${lineNumber}`
IdOf(path, number) == path \o <<":">> \o ToDecimal(number)

TaskRecord(l, path, number, statusChar, description, lastIndex) ==
  [id |-> IdOf(path, number),
   description |-> description,
   status |-> StatusOf(statusChar),
   statusSymbol |-> statusChar,
   filePath |-> path,
   lineNumber |-> number,
   tags |-> TagsOf(description, lastIndex),
   dueDate |-> MarkedDateMatch(description, DueDateMarkers),
   scheduledDate |-> MarkedDateMatch(description, ScheduledDateMarkers),
   startDate |-> MarkedDateMatch(description, StartDateMarkers),
   createdDate |-> MarkedDateMatch(description, CreatedDateMarkers),
   priority |-> PriorityOf(description),
   recurrence |-> RecurrenceMatch(description),
   originalMarkdown |-> l]

Null == [null |-> TRUE]

\* variant: originalMarkdown holds the trimmed line
parseTaskLineAt_TrimmedOriginal(l, path, number, lastIndex) ==
  LET match == TaskRegexMatch(l)
  IN IF ~match.matched THEN Null
     ELSE [TaskRecord(l, path, number, match.g3, Trim(match.g4), lastIndex)
             EXCEPT !.originalMarkdown = Trim(l)]

\* variant: scheduledDate is read from the due date match
parseTaskLineAt_ScheduledFromDue(l, path, number, lastIndex) ==
  LET match == TaskRegexMatch(l)
      t == TaskRecord(l, path, number, match.g3, Trim(match.g4), lastIndex)
  IN IF ~match.matched THEN Null ELSE [t EXCEPT !.scheduledDate = t.dueDate]

\* parseTaskLine, called when TaskRegex.hashTags.lastIndex is lastIndex
parseTaskLineAt(l, path, number, lastIndex) ==
  LET match == TaskRegexMatch(l)
      statusChar == match.g3
      description == Trim(match.g4)
  IN IF ~match.matched THEN Null
     ELSE TaskRecord(l, path, number, statusChar, description, lastIndex)

\* TaskRegex.hashTags.lastIndex after parseTaskLine(l, ...)
LastIndexAfterParse(l, lastIndex) ==
  LET match == TaskRegexMatch(l)
  IN IF ~match.matched THEN lastIndex
     ELSE HashTagsMatch(Trim(match.g4), lastIndex).lastIndex

\* parseTaskLine, called with the pattern objects as the class initialises them
parseTaskLine(l, path, number) == parseTaskLineAt(l, path, number, 0)

\* taskToString
taskToString(t) == t.originalMarkdown

----------------------------------------------------------------------------
(* Inputs of the recognizer *)

\* bounds of the enumerated lines
MaxIndent == 1

MaxGap == 2

MaxFragments == 2

MaxLineNumber == 1

RECURSIVE SeqsUpTo(_, _)
\* the sequences of at most n members of set
SeqsUpTo(set, n) ==
  IF n = 0 THEN {<<>>}
  ELSE LET shorter == SeqsUpTo(set, n - 1)
       IN shorter \cup {s \o <<c>> : s \in shorter, c \in set}

Date1 == <<"2", "0", "2", "5", "-", "0", "5", "-", "0", "1">>

Date2 == <<"2", "0", "2", "5", "-", "0", "4", "-", "2", "5">>

Date3 == <<"2", "0", "2", "4", "-", "1", "2", "-", "3", "1">>

\* what may stand before the list marker ("a": text, which is not indentation)
Indents == SeqsUpTo({" ", "TAB", ">"}, MaxIndent) \cup {<<"a">>}

\* list markers, and what is not one
Markers == {<<"-">>, <<"*">>, <<"+">>, <<"1", ".">>, <<"1", "2", ")">>, <<"1">>, <<>>}

\* what may stand between list marker and checkbox
Gaps == SeqsUpTo({" "}, MaxGap) \cup {<<"TAB">>}

\* checkboxes, and what is not one
Boxes == {<<"[", " ", "]">>, <<"[", "x", "]">>, <<"[", "X", "]">>, <<"[", "-", "]">>,
          <<"[", "/", "]">>, <<"[", ">", "]">>, <<"[", "<", "]">>, <<"[", "?", "]">>,
          <<"[", "!", "]">>, <<"[", "UD83D", "UDD3C", "]">>, <<"[", "CR", "]">>,
          <<"[", "]">>, <<"[", "x", "x", "]">>, <<"(", " ", ")">>}

\* what may follow the checkbox
Rests == {<<>>, <<" ", "a", " ">>, <<" ", "TAB", "a", "CR">>, <<"#", "a">>}

\* lines that vary the list-item and checkbox shape
ShapeLines ==
  {i \o m \o g \o b \o r : i \in Indents, m \in Markers, g \in Gaps, b \in Boxes, r \in Rests}

\* the pieces descriptions are built from
Fragments ==
  {<<"t", "e", "x", "t">>,
   <<"#", "a">>,
   <<"#", "a", "/", "b">>,
   <<"x", "#", "a">>,
   <<"UD83D", "UDDD3", "UFE0F", " ">> \o Date1,
   <<"UD83D", "UDCC5">> \o Date3,
   <<"U23F3", " ">> \o Date2,
   <<"UD83D", "UDEEB", " ">> \o Date2,
   <<"U2795", " ">> \o Date3,
   <<"UD83D", "UDD01", " ", "e", "v">>,
   <<"UD83D", "UDD01">>,
   <<"U23EB", "U23EB">>,
   <<"U23EB">>,
   <<"UD83D", "UDD3C">>,
   <<"U23EC">>}

RECURSIVE Join(_)
\* the pieces, joined by single spaces
Join(ps) ==
  IF Len(ps) = 0 THEN <<>>
  ELSE IF Len(ps) = 1 THEN ps[1]
  ELSE ps[1] \o <<" ">> \o Join(Tail(ps))

\* the example of the README's task format, in pieces
ExamplePieces ==
  << <<"R", "e", "p", "o", "r", "t">>,
     <<"UD83D", "UDDD3", "UFE0F", " ">> \o Date1,
     <<"U23F3", " ">> \o Date2,
     <<"#", "w", "o", "r", "k">>,
     <<"U23EB">> >>

\* the example, repeated and nested tags, markers of three kinds, "#a" and
\* "#b" with a tab between them, a tag that ends in a tab, a tab before a tag
\* inside a word, a date after an emoji that shares a code unit with a due
\* marker (older person, heavy heart with its variation selector, the
\* recurrence marker), a due marker with two spaces before the date, the
\* recurrence marker before 'every week', before two spaces and a second
\* time, a '#' before a tab
OtherPieces ==
  {ExamplePieces,
   << <<"#", "a">>, <<"#", "a", "/", "b">>, <<"t", "e", "x", "t">> >>,
   << <<"#", "a", "/", "b">>, <<"#", "a">>, <<"#", "a">> >>,
   << <<"U23EC">>, <<"UD83D", "UDCC5">> \o Date3, <<"UD83D", "UDD01", " ", "e", "v">> >>,
   << <<"#", "a", "TAB", "#", "b">> >>,
   << <<"#", "a", "TAB">>, <<"#", "b">> >>,
   << <<"x", "TAB", "#", "b">>, <<"#", "a">> >>,
   << <<"UD83E", "UDDD3", " ">> \o Date1 >>,
   << <<"U2764", "UFE0F">> \o Date3 >>,
   << <<"UD83D", "UDD01", " ">> \o Date2 >>,
   << <<"UD83D", "UDCC5", " ", " ">> \o Date1 >>,
   << <<"UD83D", "UDD01", " ", "e", "v", "e", "r", "y">>, <<"w", "e", "e", "k">> >>,
   << <<"t", "e", "x", "t">>, <<"UD83D", "UDD01", " ", " ", "e", "v">>,
      <<"UD83D", "UDD01", "e", "v", "TAB", "x">> >>,
   << <<"#", "TAB">>, <<"x">> >>}

DescriptionPieces == SeqsUpTo(Fragments, MaxFragments) \cup OtherPieces

TaskPrefix == <<"-", " ", "[", " ", "]", " ">>

FilePath0 == <<"a", ".", "m", "d">>

FilePaths == {FilePath0, <<"d", ":", "1", "/", "A", ".", "m", "d">>}

LineNumbers == 0..MaxLineNumber

\* the calls of parseTaskLine the model makes: lines that vary the shape,
\* lines that vary the description, and a few lines at every place
RecognizerInputs ==
  {[line |-> l, parts |-> <<>>, filePath |-> FilePath0, lineNumber |-> 0] :
     l \in ShapeLines}
  \cup {[line |-> TaskPrefix \o Join(ps), parts |-> ps, filePath |-> FilePath0,
         lineNumber |-> 0] : ps \in DescriptionPieces}
  \cup {[line |-> <<"-", " ", "[", "x", "]", " ">> \o Join(ps), parts |-> ps,
         filePath |-> f, lineNumber |-> n] :
          ps \in OtherPieces, f \in FilePaths, n \in LineNumbers}

NoDate == <<"0", "0", "0", "0", "-", "0", "0", "-", "0", "0">>

\* no request has been made and no file is waiting to be read
ServerIdle ==
  /\ pending = <<>>
  /\ links = <<>>
  /\ nodeEnv = "test"
  /\ request = Null
  /\ response = Null
  /\ scanned = <<>>
  /\ readFiles = <<>>

----------------------------------------------------------------------------
(* The recognizer: one call of parseTaskLine, then taskToString *)

Init ==
  /\ op = "input"
  /\ ServerIdle
  /\ \E i \in RecognizerInputs :
       /\ line = i.line
       /\ parts = i.parts
       /\ filePath = i.filePath
       /\ lineNumber = i.lineNumber
  /\ task = Null
  /\ rendered = <<>>
  /\ hashTagsLastIndex = 0
  /\ earlier = Null
  /\ filter = <<>>
  /\ verdict = FALSE
  /\ today = NoDate
  /\ tasks = <<>>
  /\ queryText = <<>>
  /\ selected = <<>>

\* parseTaskLine(line, filePath, lineNumber)
ParseTaskLine ==
  /\ op = "input"
  /\ op' = "parseTaskLine"
  /\ task' = parseTaskLineAt(line, filePath, lineNumber, hashTagsLastIndex)
  /\ hashTagsLastIndex' = LastIndexAfterParse(line, hashTagsLastIndex)
  /\ UNCHANGED serverVars
  /\ UNCHANGED <<line, filePath, lineNumber, rendered, earlier, filter, verdict,
                 parts, today, tasks, queryText, selected>>

\* taskToString(task)
TaskToString ==
  /\ op = "parseTaskLine"
  /\ task # Null
  /\ op' = "taskToString"
  /\ rendered' = taskToString(task)
  /\ UNCHANGED serverVars
  /\ UNCHANGED <<line, filePath, lineNumber, task, hashTagsLastIndex, earlier, filter,
                 verdict, parts, today, tasks, queryText, selected>>

Next == ParseTaskLine \/ TaskToString

Spec == Init /\ [][Next]_vars

----------------------------------------------------------------------------
(* The filter evaluator *)

\* a string written out as code units
AND_UPPER == <<" ", "A", "N", "D", " ">>

OR_UPPER == <<" ", "O", "R", " ">>

AND_LOWER == <<" ", "a", "n", "d", " ">>

OR_LOWER == <<" ", "o", "r", " ">>

NOT_PREFIX == <<"n", "o", "t", " ">>

DONE == <<"d", "o", "n", "e">>

NOT_DONE == <<"n", "o", "t", " ", "d", "o", "n", "e">>

CANCELLED == <<"c", "a", "n", "c", "e", "l", "l", "e", "d">>

IN_PROGRESS == <<"i", "n", " ", "p", "r", "o", "g", "r", "e", "s", "s">>

DUE == <<"d", "u", "e">>

DUE_TODAY == <<"d", "u", "e", " ", "t", "o", "d", "a", "y">>

DUE_BEFORE_TODAY ==
  <<"d", "u", "e", " ", "b", "e", "f", "o", "r", "e", " ", "t", "o", "d", "a", "y">>

DUE_AFTER_TODAY ==
  <<"d", "u", "e", " ", "a", "f", "t", "e", "r", " ", "t", "o", "d", "a", "y">>

NO_DUE_DATE == <<"n", "o", " ", "d", "u", "e", " ", "d", "a", "t", "e">>

HAS_DUE_DATE == <<"h", "a", "s", " ", "d", "u", "e", " ", "d", "a", "t", "e">>

NO_TAGS == <<"n", "o", " ", "t", "a", "g", "s">>

HAS_TAGS == <<"h", "a", "s", " ", "t", "a", "g", "s">>

TAG_INCLUDES_ == <<"t", "a", "g", " ", "i", "n", "c", "l", "u", "d", "e", "s", " ">>

HAS_TAG_ == <<"h", "a", "s", " ", "t", "a", "g", " ">>

INCLUDES == <<"i", "n", "c", "l", "u", "d", "e", "s">>

DOES_NOT_INCLUDE ==
  <<"d", "o", "e", "s", " ", "n", "o", "t", " ", "i", "n", "c", "l", "u", "d", "e">>

PATH_ == <<"p", "a", "t", "h", " ">>

DESCRIPTION_ == <<"d", "e", "s", "c", "r", "i", "p", "t", "i", "o", "n", " ">>

PRIORITY_IS == <<"p", "r", "i", "o", "r", "i", "t", "y", " ", "i", "s">>

RECURSIVE Split(_, _)
\* String.prototype.split with a non-empty string separator
Split(s, sep) ==
  LET i == IndexOfFrom(s, sep, 1)
  IN IF i = 0 THEN <<s>>
     ELSE <<SubSeq(s, 1, i - 1)>> \o Split(SubSeq(s, i + Len(sep), Len(s)), sep)

\* s.split(sep)[1]: the second piece (there is one when s contains sep)
SplitSecond(s, sep) == Split(s, sep)[2]

\* s.replace(/^#/, '')
StripHash(s) == IF StartsWith(s, <<"#">>) THEN Tail(s) ELSE s

\* the UTF-16 code of a code unit of a YYYY-MM-DD string
DateUnitCode(c) ==
  IF c = "-" THEN 45
  ELSE 48 + (CHOOSE d \in 0..9 : <<"0", "1", "2", "3", "4", "5", "6", "7", "8", "9">>[d + 1] = c)

\* variant: the dates are compared as the numbers parseInt reads from them,
\* which are their years
DateLess_YearOnly(a, b) ==
  \E k \in 1..4 :
    /\ \A j \in 1..(k - 1) : a[j] = b[j]
    /\ DateUnitCode(a[k]) < DateUnitCode(b[k])

\* a < b for two YYYY-MM-DD strings, as JavaScript compares strings
DateLess(a, b) ==
  \E k \in 1..10 :
    /\ \A j \in 1..(k - 1) : a[j] = b[j]
    /\ DateUnitCode(a[k]) < DateUnitCode(b[k])

\* moment().format('YYYY-MM-DD')
Today == today

\* filter.match(/^due\s+<words>(\d{4}-\d{2}-\d{2})$/) where each of words is
\* followed by \s+, and the words at optional are optional as a group:
\* group 1, Undefined when the filter does not match
DuePatternMatch(f, words, optional) ==
  LET afterDue == IF StartsWith(f, DUE) THEN SkipWhile(f, 4, WhiteSpace) ELSE 0
      w == IF afterDue <= 4 THEN 0
           ELSE IF HasAt(f, afterDue, words)
                   /\ SkipWhile(f, afterDue + Len(words), WhiteSpace) > afterDue + Len(words)
                THEN SkipWhile(f, afterDue + Len(words), WhiteSpace)
           ELSE IF optional THEN afterDue
           ELSE 0
  IN IF w # 0 /\ DateAt(f, w) /\ w + 9 = Len(f) THEN Defined(SubSeq(f, w, w + 9))
     ELSE Undefined

\* variant: " or " is looked for before " and "
Connective_OrFirst(f) ==
  IF Includes(f, OR_UPPER) THEN "OR"
  ELSE IF Includes(f, AND_UPPER) THEN "AND"
  ELSE IF Includes(f, OR_LOWER) THEN "or"
  ELSE IF Includes(f, AND_LOWER) THEN "and"
  ELSE IF StartsWith(f, NOT_PREFIX) THEN "not"
  ELSE "none"

\* variant: a leading "not " is looked for before " and " and " or "
Connective_NotFirst(f) ==
  IF StartsWith(f, NOT_PREFIX) THEN "not"
  ELSE IF Includes(f, AND_LOWER) THEN "and"
  ELSE IF Includes(f, OR_LOWER) THEN "or"
  ELSE "none"

\* the connective applyFilter splits the lower-cased, trimmed filter on
Connective(f) ==
  IF Includes(f, AND_UPPER) THEN "AND"
  ELSE IF Includes(f, OR_UPPER) THEN "OR"
  ELSE IF Includes(f, AND_LOWER) THEN "and"
  ELSE IF Includes(f, OR_LOWER) THEN "or"
  ELSE IF StartsWith(f, NOT_PREFIX) THEN "not"
  ELSE "none"

\* variant: a filter that no rule knows accepts every task
Fallback_AcceptAll(t, f) == TRUE

\* the last rule of applyFilter: the description contains the filter text
Fallback(t, f) == Includes(ToLowerCase(t.description), f)

\* the rules of applyFilter below the connectives: a predicate on the
\* lower-cased, trimmed filter f
ApplyPredicate(t, f) ==
  LET dueDateMatch == DuePatternMatch(f, <<"o", "n">>, TRUE)
      dueBeforeMatch == DuePatternMatch(f, <<"b", "e", "f", "o", "r", "e">>, FALSE)
      dueAfterMatch == DuePatternMatch(f, <<"a", "f", "t", "e", "r">>, FALSE)
      dueRule ==
        IF ~(StartsWith(f, DUE) \/ f = HAS_DUE_DATE \/ f = NO_DUE_DATE) THEN "none"
        ELSE IF f = DUE_TODAY THEN "today"
        ELSE IF f = DUE_BEFORE_TODAY THEN "before today"
        ELSE IF f = DUE_AFTER_TODAY THEN "after today"
        ELSE IF f = NO_DUE_DATE THEN "no"
        ELSE IF f = HAS_DUE_DATE THEN "has"
        ELSE IF dueDateMatch.defined THEN "on"
        ELSE IF dueBeforeMatch.defined THEN "before"
        ELSE IF dueAfterMatch.defined THEN "after"
        ELSE "none"
      priority == Trim(SplitSecond(f, PRIORITY_IS))
      priorityRule ==
        IF ~StartsWith(f, PRIORITY_IS) THEN "none"
        ELSE IF priority = <<"h", "i", "g", "h", "e", "s", "t">> THEN "highest"
        ELSE IF priority = <<"h", "i", "g", "h">> THEN "high"
        ELSE IF priority = <<"m", "e", "d", "i", "u", "m">> THEN "medium"
        ELSE IF priority = <<"l", "o", "w">> THEN "low"
        ELSE IF priority = <<"l", "o", "w", "e", "s", "t">> THEN "lowest"
        ELSE IF priority = <<"n", "o", "n", "e">> THEN "absent"
        ELSE "none"
  IN IF f = DONE THEN t.status = "complete"
     ELSE IF f = NOT_DONE THEN t.status = "incomplete" \/ t.status = "in_progress"
     ELSE IF f = CANCELLED THEN t.status = "cancelled"
     ELSE IF f = IN_PROGRESS THEN t.status = "in_progress"
     ELSE IF dueRule = "today" THEN t.dueDate = Defined(Today)
     ELSE IF dueRule = "before today" THEN t.dueDate.defined /\ DateLess(t.dueDate.value, Today)
     ELSE IF dueRule = "after today" THEN t.dueDate.defined /\ DateLess(Today, t.dueDate.value)
     ELSE IF dueRule = "no" THEN ~t.dueDate.defined
     ELSE IF dueRule = "has" THEN t.dueDate.defined
     ELSE IF dueRule = "on" THEN t.dueDate = dueDateMatch
     ELSE IF dueRule = "before"
          THEN t.dueDate.defined /\ DateLess(t.dueDate.value, dueBeforeMatch.value)
     ELSE IF dueRule = "after"
          THEN t.dueDate.defined /\ DateLess(dueAfterMatch.value, t.dueDate.value)
     ELSE IF f = NO_TAGS THEN Len(t.tags) = 0
     ELSE IF f = HAS_TAGS THEN Len(t.tags) > 0
     ELSE IF StartsWith(f, TAG_INCLUDES_)
          THEN LET tagToFind == StripHash(Trim(SplitSecond(f, TAG_INCLUDES_)))
               IN \E k \in 1..Len(t.tags) : Includes(StripHash(t.tags[k]), tagToFind)
     ELSE IF StartsWith(f, HAS_TAG_)
          THEN LET tagToFind == StripHash(Trim(Substring(f, 8)))
               IN \E k \in 1..Len(t.tags) : StripHash(t.tags[k]) = tagToFind
     ELSE IF StartsWith(f, PATH_ \o INCLUDES)
          THEN LET pathToFind == Trim(SplitSecond(f, INCLUDES))
               IN Includes(ToLowerCase(t.filePath), ToLowerCase(pathToFind))
     ELSE IF StartsWith(f, PATH_ \o DOES_NOT_INCLUDE)
          THEN LET pathToExclude == Trim(SplitSecond(f, DOES_NOT_INCLUDE))
               IN ~Includes(ToLowerCase(t.filePath), ToLowerCase(pathToExclude))
     ELSE IF StartsWith(f, DESCRIPTION_ \o INCLUDES)
          THEN LET textToFind == Trim(SplitSecond(f, INCLUDES))
               IN Includes(ToLowerCase(t.description), ToLowerCase(textToFind))
     ELSE IF StartsWith(f, DESCRIPTION_ \o DOES_NOT_INCLUDE)
          THEN LET textToExclude == Trim(SplitSecond(f, DOES_NOT_INCLUDE))
               IN ~Includes(ToLowerCase(t.description), ToLowerCase(textToExclude))
     ELSE IF priorityRule = "highest" THEN t.priority = Defined("highest")
     ELSE IF priorityRule = "high" THEN t.priority = Defined("high")
     ELSE IF priorityRule = "medium" THEN t.priority = Defined("medium")
     ELSE IF priorityRule = "low" THEN t.priority = Defined("low")
     ELSE IF priorityRule = "lowest" THEN t.priority = Defined("lowest")
     ELSE IF priorityRule = "absent" THEN ~t.priority.defined
     ELSE Fallback(t, f)

RECURSIVE applyFilter(_, _)
\* variant: 'not done' is looked for before a leading "not "
applyFilter_NotDoneFirst(t, rawFilter) ==
  LET f == Trim(ToLowerCase(rawFilter))
      c == Connective(f)
      pieces == Split(f, IF c = "and" THEN AND_LOWER ELSE OR_LOWER)
  IN IF c = "and" THEN \A k \in 1..Len(pieces) : applyFilter(t, Trim(pieces[k]))
     ELSE IF c = "or" THEN \E k \in 1..Len(pieces) : applyFilter(t, Trim(pieces[k]))
     ELSE IF f = NOT_DONE THEN t.status \in {"incomplete", "in_progress"}
     ELSE IF c = "not" THEN ~applyFilter(t, Substring(f, 4))
     ELSE ApplyPredicate(t, f)

\* applyFilter(task, filter)
applyFilter(t, rawFilter) ==
  LET f == Trim(ToLowerCase(rawFilter))
      c == Connective(f)
      sep == IF c = "AND" THEN AND_UPPER ELSE IF c = "OR" THEN OR_UPPER
             ELSE IF c = "and" THEN AND_LOWER ELSE OR_LOWER
      pieces == Split(f, sep)
  IN IF c \in {"AND", "and"}
     THEN \A k \in 1..Len(pieces) : applyFilter(t, Trim(pieces[k]))
     ELSE IF c \in {"OR", "or"}
     THEN \E k \in 1..Len(pieces) : applyFilter(t, Trim(pieces[k]))
     ELSE IF c = "not" THEN ~applyFilter(t, Substring(f, 4))
     ELSE ApplyPredicate(t, f)

\* the rule of applyFilter that returns for the lower-cased, trimmed filter
\* f, when f holds no connective
RuleOf(f) ==
  LET priority == Trim(SplitSecond(f, PRIORITY_IS))
  IN IF f = DONE THEN "done"
     ELSE IF f = NOT_DONE THEN "not done"
     ELSE IF f = CANCELLED THEN "cancelled"
     ELSE IF f = IN_PROGRESS THEN "in progress"
     ELSE IF f \in {DUE_TODAY, DUE_BEFORE_TODAY, DUE_AFTER_TODAY, NO_DUE_DATE, HAS_DUE_DATE}
          THEN "due"
     ELSE IF StartsWith(f, DUE)
             /\ (DuePatternMatch(f, <<"o", "n">>, TRUE).defined
                   \/ DuePatternMatch(f, <<"b", "e", "f", "o", "r", "e">>, FALSE).defined
                   \/ DuePatternMatch(f, <<"a", "f", "t", "e", "r">>, FALSE).defined)
          THEN "due date"
     ELSE IF f = NO_TAGS THEN "no tags"
     ELSE IF f = HAS_TAGS THEN "has tags"
     ELSE IF StartsWith(f, TAG_INCLUDES_) THEN "tag includes"
     ELSE IF StartsWith(f, HAS_TAG_) THEN "has tag"
     ELSE IF StartsWith(f, PATH_ \o INCLUDES) THEN "path includes"
     ELSE IF StartsWith(f, PATH_ \o DOES_NOT_INCLUDE) THEN "path does not include"
     ELSE IF StartsWith(f, DESCRIPTION_ \o INCLUDES) THEN "description includes"
     ELSE IF StartsWith(f, DESCRIPTION_ \o DOES_NOT_INCLUDE)
          THEN "description does not include"
     ELSE IF StartsWith(f, PRIORITY_IS)
             /\ priority \in {<<"h", "i", "g", "h", "e", "s", "t">>, <<"h", "i", "g", "h">>,
                               <<"m", "e", "d", "i", "u", "m">>, <<"l", "o", "w">>,
                               <<"l", "o", "w", "e", "s", "t">>, <<"n", "o", "n", "e">>}
          THEN "priority is"
     ELSE "fallback"

\* the rule for f calls trim on a piece that split did not return: a TypeError
PredicateThrows(f) ==
  LET rule == RuleOf(f)
  IN \/ rule = "tag includes" /\ Len(Split(f, TAG_INCLUDES_)) < 2
     \/ rule \in {"path includes", "description includes"} /\ Len(Split(f, INCLUDES)) < 2
     \/ rule \in {"path does not include", "description does not include"}
          /\ Len(Split(f, DOES_NOT_INCLUDE)) < 2
     \/ StartsWith(f, PRIORITY_IS) /\ rule \in {"priority is", "fallback"}
          /\ Len(Split(f, PRIORITY_IS)) < 2

RECURSIVE applyFilterThrows(_, _)
\* applyFilter(task, filter) throws: every and some stop at the first part
\* that decides, so only the parts before it are evaluated
applyFilterThrows(t, rawFilter) ==
  LET f == Trim(ToLowerCase(rawFilter))
      c == Connective(f)
      sep == IF c = "AND" THEN AND_UPPER ELSE IF c = "OR" THEN OR_UPPER
             ELSE IF c = "and" THEN AND_LOWER ELSE OR_LOWER
      pieces == Split(f, sep)
      reached(k, value) ==
        \A j \in 1..(k - 1) :
          ~applyFilterThrows(t, Trim(pieces[j])) /\ applyFilter(t, Trim(pieces[j])) = value
  IN IF c \in {"AND", "and"}
     THEN \E k \in 1..Len(pieces) : reached(k, TRUE) /\ applyFilterThrows(t, Trim(pieces[k]))
     ELSE IF c \in {"OR", "or"}
     THEN \E k \in 1..Len(pieces) : reached(k, FALSE) /\ applyFilterThrows(t, Trim(pieces[k]))
     ELSE IF c = "not" THEN applyFilterThrows(t, Substring(f, 4))
     ELSE PredicateThrows(f)

\* parseQuery(queryText)
parseQuery(text) ==
  LET lines == Split(text, <<"LF">>)
      trimmed == [k \in 1..Len(lines) |-> Trim(lines[k])]
  IN SelectSeq(trimmed, LAMBDA l : l # <<>> /\ ~StartsWith(l, <<"#">>))

\* variant: a task is kept when some line's filter accepts it
queryTasks_AnyLine(ts, text) ==
  LET filters == parseQuery(text)
  IN SelectSeq(ts, LAMBDA t : \E k \in 1..Len(filters) : applyFilter(t, filters[k]))

\* variant: the tasks that are kept are returned last first
queryTasks_Reversed(ts, text) ==
  LET filters == parseQuery(text)
      kept == SelectSeq(ts, LAMBDA t : \A k \in 1..Len(filters) : applyFilter(t, filters[k]))
  IN [k \in 1..Len(kept) |-> kept[Len(kept) + 1 - k]]

\* variant: only the first line of the query counts
queryTasks_FirstLine(ts, text) ==
  LET filters == parseQuery(text)
  IN SelectSeq(ts, LAMBDA t : filters # <<>> => applyFilter(t, filters[1]))

\* queryTasks(tasks, queryText)
queryTasks(ts, text) ==
  LET filters == parseQuery(text)
  IN SelectSeq(ts, LAMBDA t : \A k \in 1..Len(filters) : applyFilter(t, filters[k]))

----------------------------------------------------------------------------
(* The filter evaluator: one call of applyFilter *)

MaxOperands == 3

MaxTasks == 2

MaxQueryLines == 3

\* the lines the tasks of the evaluator's inputs are parsed from
FilterLines ==
  {<<"-", " ", "[", " ", "]", " ", "t", "e", "x", "t">>,
   <<"-", " ", "[", "x", "]", " ", "#", "a", " ", "U23EB">>,
   <<"-", " ", "[", "X", "]", " ", "t", "e", "x", "t", " ", "UD83D", "UDCC5", " ">> \o Date1,
   <<"-", " ", "[", "-", "]", " ", "T", "e", "x", "t", " ", "#", "a">>,
   <<"-", " ", "[", "/", "]", " ", "U23EB">>,
   <<"-", " ", "[", "?", "]", " ", "#", "b">>}

FilterTasks == {parseTaskLine(l, FilePath0, 0) : l \in FilterLines}

\* clauses without a connective
Atoms == {DONE, IN_PROGRESS, HAS_TAGS, <<"t", "e", "x", "t">>}

Connectives == {OR_LOWER, AND_LOWER}

RECURSIVE ClausePieces(_)
\* n atoms with a connective between each two
ClausePieces(n) ==
  IF n = 1 THEN {<<a>> : a \in Atoms}
  ELSE {ps \o <<c, a>> : ps \in ClausePieces(n - 1), c \in Connectives, a \in Atoms}

\* other clauses: not done in several spellings, upper-case connectives
OtherClausePieces ==
  {<<NOT_DONE>>,
   <<<<" ", "N", "o", "t", " ", "D", "o", "n", "e", " ">>>>,
   <<NOT_PREFIX \o CANCELLED>>,
   <<CANCELLED, OR_LOWER, PRIORITY_IS \o <<" ", "h", "i", "g", "h">>>>,
   <<DONE, <<" ", "O", "R", " ">>, CANCELLED, <<" ", "A", "N", "D", " ">>, HAS_TAGS>>,
   <<NOT_PREFIX \o DONE, OR_LOWER, HAS_TAGS, AND_LOWER, NOT_PREFIX \o <<"t", "e", "x", "t">>>>,
   <<<<"N", "O", "T", " ">> \o DONE, <<" ", "O", "r", " ">>, CANCELLED>>,
   <<NOT_PREFIX \o NOT_PREFIX \o DONE>>}

FilterPieces ==
  UNION {ClausePieces(n) : n \in 1..MaxOperands} \cup OtherClausePieces

RECURSIVE Concat(_)
\* the pieces, one after the other
Concat(ps) == IF Len(ps) = 0 THEN <<>> ELSE ps[1] \o Concat(Tail(ps))

\* the texts of the clauses the model applies
ZZZ == <<"z", "z", "z">>

XYZ == <<"x", "y", "z">>

URGENT == <<"u", "r", "g", "e", "n", "t">>

DUE_ == <<"d", "u", "e", " ">>

DUE_ON_ == <<"d", "u", "e", " ", "o", "n", " ">>

DUE_BEFORE_ == <<"d", "u", "e", " ", "b", "e", "f", "o", "r", "e", " ">>

DUE_AFTER_ == <<"d", "u", "e", " ", "a", "f", "t", "e", "r", " ">>

DUE_AFTER == <<"d", "u", "e", " ", "a", "f", "t", "e", "r">>

PRIORITY_IS_ == <<"p", "r", "i", "o", "r", "i", "t", "y", " ", "i", "s", " ">>

TAG_INCLUDE_ == <<"t", "a", "g", " ", "i", "n", "c", "l", "u", "d", "e", " ">>

TAG_DO_NOT_INCLUDE_ == <<"t", "a", "g", " ", "d", "o", " ", "n", "o", "t", " ", "i", "n", "c", "l", "u", "d", "e", " ">>

PATH_INCLUDES_ == <<"p", "a", "t", "h", " ", "i", "n", "c", "l", "u", "d", "e", "s", " ">>

PATH_DOES_NOT_INCLUDE_ == <<"p", "a", "t", "h", " ", "d", "o", "e", "s", " ", "n", "o", "t", " ", "i", "n", "c", "l", "u", "d", "e", " ">>

DESCRIPTION_INCLUDES_ == <<"d", "e", "s", "c", "r", "i", "p", "t", "i", "o", "n", " ", "i", "n", "c", "l", "u", "d", "e", "s", " ">>

DESCRIPTION_DOES_NOT_INCLUDE_ == <<"d", "e", "s", "c", "r", "i", "p", "t", "i", "o", "n", " ", "d", "o", "e", "s", " ", "n", "o", "t", " ", "i", "n", "c", "l", "u", "d", "e", " ">>

HIGHEST == <<"h", "i", "g", "h", "e", "s", "t">>

HIGH == <<"h", "i", "g", "h">>

MEDIUM == <<"m", "e", "d", "i", "u", "m">>

LOW == <<"l", "o", "w">>

LOWEST == <<"l", "o", "w", "e", "s", "t">>

NONE == <<"n", "o", "n", "e">>

\* the tasks the predicate clauses are tried on: every priority, due dates
\* before, on and after today, tags that contain one another, two files
PredicateTasks ==
  {parseTaskLine(<<"-", " ", "[", " ", "]", " ", "t", "e", "x", "t", " ", "UD83D", "UDCC5", " ">> \o Date1 \o <<" ", "U23EB", "U23EB", " ", "#", "t", "a", "g">>,
                 FilePath0, 0),
   parseTaskLine(<<"-", " ", "[", "x", "]", " ", "T", "e", "x", "t", " ", "i", "n", "c", "l", "u", "d", "e", "s", " ", "m", "o", "r", "e", " ", "UD83D", "UDCC5", " ">> \o Date2 \o <<" ", "UD83D", "UDD3C", " ", "#", "t", "a", "g", "s", " ", "#", "W", "o", "r", "k">>,
                 <<"d", ":", "1", "/", "A", ".", "m", "d">>, 0),
   parseTaskLine(<<"-", " ", "[", " ", "]", " ", "UD83D", "UDCC5", " ">> \o Date3 \o <<" ", "UD83D", "UDD3D", " ", "#", "t", "a", "g", "-", "w", "i", "t", "h", "-", "d", "a", "s", "h", "e", "s">>,
                 FilePath0, 0),
   parseTaskLine(<<"-", " ", "[", "/", "]", " ", "o", "r", " ", "t", "e", "x", "t", " ", "U23EC", " ", "#", "p", "r", "o", "j", "e", "c", "t", "/", "s", "u", "b", "t", "a", "g">>,
                 <<"d", ":", "1", "/", "A", ".", "m", "d">>, 0),
   parseTaskLine(<<"-", " ", "[", "-", "]", " ", "#", "p", "r", "o", "j", "e", "c", "t">>,
                 FilePath0, 0),
   parseTaskLine(<<"-", " ", "[", " ", "]", " ", "U23EB", " ", "n", "o", " ", "t", "a", "g", "s">>,
                 FilePath0, 0)}

\* clauses of one predicate, as the keyword and its argument
PredicateClauses ==
  {<<<<>>, <<>>>>,
   <<<<"z", "z", "z">>, <<>>>>,
   <<<<"T", "E", "X", "T">>, <<>>>>,
   <<<<"d", "u", "e", " ", "b", "e", "f", "o", "r", "e", " ">>, <<"x", "y", "z">>>>,
   <<<<"d", "u", "e", " ", "a", "f", "t", "e", "r">>, <<>>>>,
   <<<<"d", "u", "e", " ">>, <<"2", "0", "2", "5", "-", "5", "-", "1">>>>,
   <<<<"p", "r", "i", "o", "r", "i", "t", "y", " ", "i", "s", " ">>, <<"u", "r", "g", "e", "n", "t">>>>,
   <<<<"p", "r", "i", "o", "r", "i", "t", "y", " ", "i", "s">>, <<>>>>,
   <<<<"h", "a", "s", " ", "t", "a", "g", " ">>, <<>>>>,
   <<<<"t", "a", "g", " ", "i", "n", "c", "l", "u", "d", "e", "s", " ">>, <<>>>>,
   <<<<"h", "a", "s", " ", "t", "a", "g">>, <<"x">>>>,
   <<<<"p", "a", "t", "h", " ", "i", "n", "c", "l", "u", "d", "e", "s">>, <<>>>>,
   <<<<"d", "e", "s", "c", "r", "i", "p", "t", "i", "o", "n", " ", "i", "n", "c", "l", "u", "d", "e", "s", " ">>, <<>>>>,
   <<<<"n", "o", "t", " ">>, <<>>>>,
   <<<<"d", "u", "e", " ", "t", "o", "d", "a", "y">>, <<>>>>,
   <<<<"d", "u", "e", " ", "b", "e", "f", "o", "r", "e", " ", "t", "o", "d", "a", "y">>, <<>>>>,
   <<<<"d", "u", "e", " ", "a", "f", "t", "e", "r", " ", "t", "o", "d", "a", "y">>, <<>>>>,
   <<<<"n", "o", " ", "d", "u", "e", " ", "d", "a", "t", "e">>, <<>>>>,
   <<<<"h", "a", "s", " ", "d", "u", "e", " ", "d", "a", "t", "e">>, <<>>>>,
   <<<<"d", "u", "e", " ">>, Date1>>,
   <<<<"d", "u", "e", " ">>, Date2>>,
   <<<<"d", "u", "e", " ">>, Date3>>,
   <<<<"d", "u", "e", " ", "o", "n", " ">>, Date1>>,
   <<<<"d", "u", "e", " ", "o", "n", " ">>, Date2>>,
   <<<<"d", "u", "e", " ", "o", "n", " ">>, Date3>>,
   <<<<"d", "u", "e", " ", "b", "e", "f", "o", "r", "e", " ">>, Date1>>,
   <<<<"d", "u", "e", " ", "b", "e", "f", "o", "r", "e", " ">>, Date2>>,
   <<<<"d", "u", "e", " ", "b", "e", "f", "o", "r", "e", " ">>, Date3>>,
   <<<<"d", "u", "e", " ", "a", "f", "t", "e", "r", " ">>, Date1>>,
   <<<<"d", "u", "e", " ", "a", "f", "t", "e", "r", " ">>, Date2>>,
   <<<<"d", "u", "e", " ", "a", "f", "t", "e", "r", " ">>, Date3>>,
   <<<<"t", "a", "g", " ", "i", "n", "c", "l", "u", "d", "e", " ">>, <<"t", "a", "g">>>>,
   <<<<"t", "a", "g", " ", "i", "n", "c", "l", "u", "d", "e", " ">>, <<"#", "t", "a", "g">>>>,
   <<<<"t", "a", "g", " ", "i", "n", "c", "l", "u", "d", "e", " ">>, <<"p", "r", "o", "j", "e", "c", "t">>>>,
   <<<<"t", "a", "g", " ", "d", "o", " ", "n", "o", "t", " ", "i", "n", "c", "l", "u", "d", "e", " ">>, <<"t", "a", "g">>>>,
   <<<<"t", "a", "g", " ", "d", "o", " ", "n", "o", "t", " ", "i", "n", "c", "l", "u", "d", "e", " ">>, <<"#", "p", "r", "o", "j", "e", "c", "t">>>>,
   <<<<"t", "a", "g", " ", "i", "n", "c", "l", "u", "d", "e", "s", " ">>, <<"t", "a", "g">>>>,
   <<<<"t", "a", "g", " ", "i", "n", "c", "l", "u", "d", "e", "s", " ">>, <<"#", "s", "u", "b">>>>,
   <<<<"h", "a", "s", " ", "t", "a", "g", " ">>, <<"t", "a", "g">>>>,
   <<<<"h", "a", "s", " ", "t", "a", "g", " ">>, <<"#", "t", "a", "g">>>>,
   <<<<"h", "a", "s", " ", "t", "a", "g", " ">>, <<"T", "A", "G">>>>,
   <<<<"h", "a", "s", " ", "t", "a", "g", " ">>, <<"W", "o", "r", "k">>>>,
   <<<<"h", "a", "s", " ", "t", "a", "g", " ">>, <<"w", "o", "r", "k">>>>,
   <<<<"h", "a", "s", " ", "t", "a", "g", " ">>, <<"p", "r", "o", "j", "e", "c", "t", "/", "s", "u", "b", "t", "a", "g">>>>,
   <<<<"h", "a", "s", " ", "t", "a", "g", " ">>, <<"p", "r", "o", "j", "e", "c", "t">>>>,
   <<<<"h", "a", "s", " ", "t", "a", "g", " ">>, <<"s", "u", "b", "t", "a", "g">>>>,
   <<<<"h", "a", "s", " ", "t", "a", "g", " ">>, <<"#", "t", "a", "g", "-", "w", "i", "t", "h", "-", "d", "a", "s", "h", "e", "s">>>>,
   <<<<"p", "a", "t", "h", " ", "i", "n", "c", "l", "u", "d", "e", "s", " ">>, <<"a", ".", "m", "d">>>>,
   <<<<"p", "a", "t", "h", " ", "i", "n", "c", "l", "u", "d", "e", "s", " ">>, <<"D", ":", "1">>>>,
   <<<<"p", "a", "t", "h", " ", "i", "n", "c", "l", "u", "d", "e", "s", " ">>, <<"t", "e", "x", "t">>>>,
   <<<<"p", "a", "t", "h", " ", "i", "n", "c", "l", "u", "d", "e", "s", " ">>, <<"m", "o", "r", "e">>>>,
   <<<<"p", "a", "t", "h", " ", "i", "n", "c", "l", "u", "d", "e", "s", " ">>, <<"t", "e", "x", "t", " ", "i", "n", "c", "l", "u", "d", "e", "s", " ", "m", "o", "r", "e">>>>,
   <<<<"p", "a", "t", "h", " ", "i", "n", "c", "l", "u", "d", "e", "s", " ">>, <<"m", "o", "r", "e", " ", "a", "n", "d", " ", "t", "e", "x", "t">>>>,
   <<<<"p", "a", "t", "h", " ", "i", "n", "c", "l", "u", "d", "e", "s", " ">>, <<"o", "r", " ", "t", "e", "x", "t">>>>,
   <<<<"p", "a", "t", "h", " ", "i", "n", "c", "l", "u", "d", "e", "s", " ">>, <<"z", "z", "z">>>>,
   <<<<"p", "a", "t", "h", " ", "d", "o", "e", "s", " ", "n", "o", "t", " ", "i", "n", "c", "l", "u", "d", "e", " ">>, <<"a", ".", "m", "d">>>>,
   <<<<"p", "a", "t", "h", " ", "d", "o", "e", "s", " ", "n", "o", "t", " ", "i", "n", "c", "l", "u", "d", "e", " ">>, <<"D", ":", "1">>>>,
   <<<<"p", "a", "t", "h", " ", "d", "o", "e", "s", " ", "n", "o", "t", " ", "i", "n", "c", "l", "u", "d", "e", " ">>, <<"t", "e", "x", "t">>>>,
   <<<<"p", "a", "t", "h", " ", "d", "o", "e", "s", " ", "n", "o", "t", " ", "i", "n", "c", "l", "u", "d", "e", " ">>, <<"m", "o", "r", "e">>>>,
   <<<<"p", "a", "t", "h", " ", "d", "o", "e", "s", " ", "n", "o", "t", " ", "i", "n", "c", "l", "u", "d", "e", " ">>, <<"t", "e", "x", "t", " ", "i", "n", "c", "l", "u", "d", "e", "s", " ", "m", "o", "r", "e">>>>,
   <<<<"p", "a", "t", "h", " ", "d", "o", "e", "s", " ", "n", "o", "t", " ", "i", "n", "c", "l", "u", "d", "e", " ">>, <<"m", "o", "r", "e", " ", "a", "n", "d", " ", "t", "e", "x", "t">>>>,
   <<<<"p", "a", "t", "h", " ", "d", "o", "e", "s", " ", "n", "o", "t", " ", "i", "n", "c", "l", "u", "d", "e", " ">>, <<"o", "r", " ", "t", "e", "x", "t">>>>,
   <<<<"p", "a", "t", "h", " ", "d", "o", "e", "s", " ", "n", "o", "t", " ", "i", "n", "c", "l", "u", "d", "e", " ">>, <<"z", "z", "z">>>>,
   <<<<"d", "e", "s", "c", "r", "i", "p", "t", "i", "o", "n", " ", "i", "n", "c", "l", "u", "d", "e", "s", " ">>, <<"a", ".", "m", "d">>>>,
   <<<<"d", "e", "s", "c", "r", "i", "p", "t", "i", "o", "n", " ", "i", "n", "c", "l", "u", "d", "e", "s", " ">>, <<"D", ":", "1">>>>,
   <<<<"d", "e", "s", "c", "r", "i", "p", "t", "i", "o", "n", " ", "i", "n", "c", "l", "u", "d", "e", "s", " ">>, <<"t", "e", "x", "t">>>>,
   <<<<"d", "e", "s", "c", "r", "i", "p", "t", "i", "o", "n", " ", "i", "n", "c", "l", "u", "d", "e", "s", " ">>, <<"m", "o", "r", "e">>>>,
   <<<<"d", "e", "s", "c", "r", "i", "p", "t", "i", "o", "n", " ", "i", "n", "c", "l", "u", "d", "e", "s", " ">>, <<"t", "e", "x", "t", " ", "i", "n", "c", "l", "u", "d", "e", "s", " ", "m", "o", "r", "e">>>>,
   <<<<"d", "e", "s", "c", "r", "i", "p", "t", "i", "o", "n", " ", "i", "n", "c", "l", "u", "d", "e", "s", " ">>, <<"m", "o", "r", "e", " ", "a", "n", "d", " ", "t", "e", "x", "t">>>>,
   <<<<"d", "e", "s", "c", "r", "i", "p", "t", "i", "o", "n", " ", "i", "n", "c", "l", "u", "d", "e", "s", " ">>, <<"o", "r", " ", "t", "e", "x", "t">>>>,
   <<<<"d", "e", "s", "c", "r", "i", "p", "t", "i", "o", "n", " ", "i", "n", "c", "l", "u", "d", "e", "s", " ">>, <<"z", "z", "z">>>>,
   <<<<"d", "e", "s", "c", "r", "i", "p", "t", "i", "o", "n", " ", "d", "o", "e", "s", " ", "n", "o", "t", " ", "i", "n", "c", "l", "u", "d", "e", " ">>, <<"a", ".", "m", "d">>>>,
   <<<<"d", "e", "s", "c", "r", "i", "p", "t", "i", "o", "n", " ", "d", "o", "e", "s", " ", "n", "o", "t", " ", "i", "n", "c", "l", "u", "d", "e", " ">>, <<"D", ":", "1">>>>,
   <<<<"d", "e", "s", "c", "r", "i", "p", "t", "i", "o", "n", " ", "d", "o", "e", "s", " ", "n", "o", "t", " ", "i", "n", "c", "l", "u", "d", "e", " ">>, <<"t", "e", "x", "t">>>>,
   <<<<"d", "e", "s", "c", "r", "i", "p", "t", "i", "o", "n", " ", "d", "o", "e", "s", " ", "n", "o", "t", " ", "i", "n", "c", "l", "u", "d", "e", " ">>, <<"m", "o", "r", "e">>>>,
   <<<<"d", "e", "s", "c", "r", "i", "p", "t", "i", "o", "n", " ", "d", "o", "e", "s", " ", "n", "o", "t", " ", "i", "n", "c", "l", "u", "d", "e", " ">>, <<"t", "e", "x", "t", " ", "i", "n", "c", "l", "u", "d", "e", "s", " ", "m", "o", "r", "e">>>>,
   <<<<"d", "e", "s", "c", "r", "i", "p", "t", "i", "o", "n", " ", "d", "o", "e", "s", " ", "n", "o", "t", " ", "i", "n", "c", "l", "u", "d", "e", " ">>, <<"m", "o", "r", "e", " ", "a", "n", "d", " ", "t", "e", "x", "t">>>>,
   <<<<"d", "e", "s", "c", "r", "i", "p", "t", "i", "o", "n", " ", "d", "o", "e", "s", " ", "n", "o", "t", " ", "i", "n", "c", "l", "u", "d", "e", " ">>, <<"o", "r", " ", "t", "e", "x", "t">>>>,
   <<<<"d", "e", "s", "c", "r", "i", "p", "t", "i", "o", "n", " ", "d", "o", "e", "s", " ", "n", "o", "t", " ", "i", "n", "c", "l", "u", "d", "e", " ">>, <<"z", "z", "z">>>>,
   <<<<"p", "r", "i", "o", "r", "i", "t", "y", " ", "i", "s", " ">>, <<"h", "i", "g", "h", "e", "s", "t">>>>,
   <<<<"p", "r", "i", "o", "r", "i", "t", "y", " ", "i", "s", " ">>, <<"h", "i", "g", "h">>>>,
   <<<<"p", "r", "i", "o", "r", "i", "t", "y", " ", "i", "s", " ">>, <<"m", "e", "d", "i", "u", "m">>>>,
   <<<<"p", "r", "i", "o", "r", "i", "t", "y", " ", "i", "s", " ">>, <<"l", "o", "w">>>>,
   <<<<"p", "r", "i", "o", "r", "i", "t", "y", " ", "i", "s", " ">>, <<"l", "o", "w", "e", "s", "t">>>>,
   <<<<"p", "r", "i", "o", "r", "i", "t", "y", " ", "i", "s", " ">>, <<"n", "o", "n", "e">>>>}

\* the calls of applyFilter the model makes: clauses of several operands on
\* the tasks of FilterTasks, clauses of one predicate on the PredicateTasks
FilterInputs ==
  {[task |-> t, parts |-> ps] : t \in FilterTasks, ps \in FilterPieces}
  \cup {[task |-> t, parts |-> ps] : t \in PredicateTasks, ps \in PredicateClauses}

InitFilter ==
  /\ op = "input"
  /\ ServerIdle
  /\ \E i \in FilterInputs :
       /\ task = i.task
       /\ parts = i.parts
       /\ filter = Concat(i.parts)
  /\ today = Date2
  /\ line = <<>>
  /\ filePath = <<>>
  /\ lineNumber = 0
  /\ rendered = <<>>
  /\ hashTagsLastIndex = 0
  /\ earlier = Null
  /\ verdict = FALSE
  /\ tasks = <<>>
  /\ queryText = <<>>
  /\ selected = <<>>

\* applyFilter(task, filter)
ApplyFilter ==
  /\ op = "input"
  /\ op' = "applyFilter"
  /\ verdict' = applyFilter(task, filter)
  /\ UNCHANGED serverVars
  /\ UNCHANGED <<line, filePath, lineNumber, task, rendered, hashTagsLastIndex, earlier,
                 filter, parts, today, tasks, queryText, selected>>

NextFilter == ApplyFilter

SpecFilter == InitFilter /\ [][NextFilter]_vars

----------------------------------------------------------------------------
(* The query evaluator: one call of queryTasks *)

\* the tasks the lists are made of
ListedTasks ==
  {parseTaskLine(l, FilePath0, 0) :
     l \in {<<"-", " ", "[", "x", "]", " ", "#", "a", " ", "U23EB">>,
            <<"-", " ", "[", "-", "]", " ", "T", "e", "x", "t", " ", "#", "a">>}}

\* every task of FilterTasks, in some order
AllFilterTasks ==
  CHOOSE ts \in [1..Cardinality(FilterTasks) -> FilterTasks] :
    \A t \in FilterTasks : \E k \in 1..Cardinality(FilterTasks) : ts[k] = t

\* a list with a task whose description holds the word and
AndTasks ==
  << parseTaskLine(<<"-", " ", "[", " ", "]", " ", "t", "e", "x", "t", " ", "a", "n", "d",
                     " ", "#", "a">>, FilePath0, 0),
     parseTaskLine(<<"-", " ", "[", "-", "]", " ", "T", "e", "x", "t", " ", "#", "a">>,
                   FilePath0, 1) >>

TaskLists == SeqsUpTo(ListedTasks, MaxTasks) \cup {AllFilterTasks, AndTasks}

\* the lines queries are made of: clauses, a blank line, a comment, a line
\* that ends in a carriage return
QueryLines ==
  {DONE,
   HAS_TAG_ \o <<"a">>,
   <<" ", "T", "e", "x", "t", "CR">>,
   <<" ", " ">>,
   <<" ", "#", " ", "d", "o", "n", "e">>}

RECURSIVE JoinLines(_)
\* the lines, with a line feed between each two
JoinLines(ls) ==
  IF Len(ls) = 0 THEN <<>>
  ELSE IF Len(ls) = 1 THEN ls[1]
  ELSE ls[1] \o <<"LF">> \o JoinLines(Tail(ls))

\* clauses without ' and ' and ' or ' and without a leading 'not ': predicates,
\* words to look for in the description, a clause that starts with '#' and
\* a clause that starts with the word or
QueryAtoms ==
  {DONE,
   HAS_TAG_ \o <<"a">>,
   <<"t", "e", "x", "t">>,
   <<"#", "a">>,
   <<"o", "r", " ", "t", "e", "x", "t">>}

\* queries of one line: an atom, its negation, two atoms joined by ' or '
OneLineQueries ==
  {<<a>> : a \in QueryAtoms}
  \cup {<<NOT_PREFIX \o a>> : a \in QueryAtoms}
  \cup {<<a \o OR_LOWER \o b>> : a \in QueryAtoms, b \in QueryAtoms}

\* clauses with connectives, with white space at their ends, and one that
\* ends with the word and
JoinableClauses ==
  {DONE,
   HAS_TAGS \o OR_LOWER \o <<"x", "y", "z">>,
   NOT_PREFIX \o CANCELLED \o AND_LOWER \o <<"t", "e", "x", "t">>,
   <<" ">> \o NOT_PREFIX \o DONE \o <<"CR">>,
   <<"t", "e", "x", "t", " ", "a", "n", "d">>}

\* queries of two lines
TwoLineQueries == {<<a, b>> : a \in JoinableClauses, b \in JoinableClauses}

InitQuery ==
  /\ op = "input"
  /\ ServerIdle
  /\ tasks \in TaskLists
  /\ parts \in SeqsUpTo(QueryLines, MaxQueryLines) \cup OneLineQueries \cup TwoLineQueries
  /\ queryText = JoinLines(parts)
  /\ today = Date2
  /\ line = <<>>
  /\ filePath = <<>>
  /\ lineNumber = 0
  /\ task = Null
  /\ rendered = <<>>
  /\ hashTagsLastIndex = 0
  /\ earlier = Null
  /\ filter = <<>>
  /\ verdict = FALSE
  /\ selected = <<>>

\* queryTasks(tasks, queryText)
QueryTasks ==
  /\ op = "input"
  /\ op' = "queryTasks"
  /\ selected' = queryTasks(tasks, queryText)
  /\ UNCHANGED serverVars
  /\ UNCHANGED <<line, filePath, lineNumber, task, rendered, hashTagsLastIndex, earlier,
                 filter, verdict, parts, today, tasks, queryText>>

NextQuery == QueryTasks

SpecQuery == InitQuery /\ [][NextQuery]_vars

----------------------------------------------------------------------------
(* Calls in sequence: parseTaskLine and applyFilter, in any order; the static
   patterns of TaskRegex are shared by all calls *)

HistoryLines ==
  {<<"-", " ", "[", " ", "]", " ", "#", "a", " ", "#", "b", " ", "#", "c">>,
   <<"-", " ", "[", "x", "]", " ", "t", "e", "x", "t", " ", "#", "a">>,
   <<"-", " ", "[", " ", "]", " ", "U23EB", " ", "UD83D", "UDCC5", " ">> \o Date1,
   <<"-", " ", "[", " ", "]">>,
   <<"t", "e", "x", "t">>}

HistoryFilters == {HAS_TAG_ \o <<"b">>, NOT_DONE}

\* the calls of parseTaskLine the model makes in sequence: every line at one
\* place, and the first line at every place
HistoryInputs ==
  {[line |-> l, filePath |-> FilePath0, lineNumber |-> 0] : l \in HistoryLines}
  \cup {[line |-> <<"-", " ", "[", " ", "]", " ", "#", "a", " ", "#", "b", " ", "#", "c">>,
         filePath |-> f, lineNumber |-> n] : f \in FilePaths, n \in LineNumbers}

InitHistory ==
  /\ op = "input"
  /\ ServerIdle
  /\ line = <<>>
  /\ filePath = <<>>
  /\ lineNumber = 0
  /\ parts = <<>>
  /\ task = Null
  /\ rendered = <<>>
  /\ hashTagsLastIndex = 0
  /\ earlier = Null
  /\ filter = <<>>
  /\ verdict = FALSE
  /\ today = Date2
  /\ tasks = <<>>
  /\ queryText = <<>>
  /\ selected = <<>>

\* parseTaskLine(l, f, n), after whatever calls came before; the call may be
\* the one kept in earlier for comparison with later calls
ParseTaskLineAgain ==
  \E i \in HistoryInputs, keep \in BOOLEAN :
    /\ op' = "parseTaskLine"
    /\ line' = i.line
    /\ filePath' = i.filePath
    /\ lineNumber' = i.lineNumber
    /\ task' = parseTaskLineAt(i.line, i.filePath, i.lineNumber, hashTagsLastIndex)
    /\ hashTagsLastIndex' = LastIndexAfterParse(i.line, hashTagsLastIndex)
    /\ earlier' = IF keep /\ earlier = Null
                  THEN [line |-> i.line, filePath |-> i.filePath,
                        lineNumber |-> i.lineNumber, result |-> task']
                  ELSE earlier
    /\ UNCHANGED serverVars
    /\ UNCHANGED <<rendered, filter, verdict, parts, today, tasks, queryText, selected>>

\* applyFilter(task, f) on the task of the last parseTaskLine call; it uses
\* pattern literals of its own and leaves TaskRegex alone
ApplyFilterBetween ==
  \E f \in HistoryFilters :
    /\ task # Null
    /\ op' = "applyFilter"
    /\ filter' = f
    /\ verdict' = applyFilter(task, f)
    /\ UNCHANGED serverVars
    /\ UNCHANGED <<line, filePath, lineNumber, task, rendered, hashTagsLastIndex, earlier,
                   parts, today, tasks, queryText, selected>>

NextHistory == ParseTaskLineAgain \/ ApplyFilterBetween

SpecHistory == InitHistory /\ [][NextHistory]_vars

----------------------------------------------------------------------------
(* A batch: findAllTasks reads the files one after the other and parses each
   with parseTasks *)

\* variant: parseTaskLine is called without the line number, which is then 0
parseTasks_NoLineNumber(text, path) ==
  LET lines == Split(text, <<"LF">>)
      parsed == [i \in 1..Len(lines) |-> parseTaskLine(lines[i], path, 0)]
  IN SelectSeq(parsed, LAMBDA t : t # Null)

\* parseTasks(text, filePath): the tasks of the lines of text, each line
\* numbered by its index
parseTasks(text, path) ==
  LET lines == Split(text, <<"LF">>)
      parsed == [i \in 1..Len(lines) |-> parseTaskLine(lines[i], path, i - 1)]
  IN SelectSeq(parsed, LAMBDA t : t # Null)

\* extractTasksFromFile(filePath): the tasks of the file; when it cannot be
\* read, readFile throws, the catch logs the error and returns no task
extractTasksFromFile(file) ==
  IF file.readable THEN parseTasks(file.content, file.path) ELSE <<>>

\* variant: a file that cannot be read loses the tasks collected so far
PushTasks_FailBatch(allTasks, file) ==
  IF file.readable THEN allTasks \o extractTasksFromFile(file) ELSE <<>>

\* the body of the loop of findAllTasks: allTasks.push(...tasks)
PushTasks(allTasks, file) == allTasks \o extractTasksFromFile(file)

MaxBatchLines == 2

\* the lines of the files: two tasks and a line that is none
BatchLines ==
  {<<"-", " ", "[", " ", "]", " ", "x">>,
   <<"-", " ", "[", "x", "]", " ", "#", "a">>,
   <<"x">>}

BatchTexts == {JoinLines(ls) : ls \in SeqsUpTo(BatchLines, MaxBatchLines)}

\* paths of files, with ':' and digits in them
BatchPaths == {<<"a">>, <<"a", ":", "1">>, <<"d", "/", "a", ":", "1", ":", "0">>}

\* a file as findAllMarkdownFiles found it, which can be read or not
BatchFile(f, c, r) == [path |-> f, content |-> c, readable |-> r]

\* one file, or two files with distinct paths; the files can be read, except
\* for a single file, the first of two and the second of two
Batches ==
  {<<BatchFile(f, c, r)>> : f \in BatchPaths, c \in BatchTexts, r \in BOOLEAN}
  \cup {<<BatchFile(fg[1], c, TRUE), BatchFile(fg[2], c, TRUE)>> :
          fg \in {pq \in BatchPaths \X BatchPaths : pq[1] # pq[2]}, c \in BatchTexts}
  \cup {<<BatchFile(<<"a">>, c, r), BatchFile(<<"a", ":", "1">>, e, TRUE)>> :
          c \in BatchTexts, e \in BatchTexts, r \in BOOLEAN}
  \cup {<<BatchFile(<<"a">>, c, TRUE), BatchFile(<<"a", ":", "1">>, c, FALSE)>> :
          c \in BatchTexts}

InitBatch ==
  /\ op = "input"
  /\ pending \in Batches
  /\ links = <<>>
  /\ nodeEnv = "test"
  /\ request = Null
  /\ response = Null
  /\ scanned = <<>>
  /\ readFiles = <<>>
  /\ line = <<>>
  /\ filePath = <<>>
  /\ lineNumber = 0
  /\ parts = pending
  /\ task = Null
  /\ rendered = <<>>
  /\ hashTagsLastIndex = 0
  /\ earlier = Null
  /\ filter = <<>>
  /\ verdict = FALSE
  /\ today = NoDate
  /\ tasks = <<>>
  /\ queryText = <<>>
  /\ selected = <<>>

\* one round of the loop of findAllTasks: extractTasksFromFile reads the next
\* file and parses it, and its tasks are pushed to allTasks
ExtractTasksFromFile ==
  /\ pending # <<>>
  /\ op' = "extractTasksFromFile"
  /\ readFiles' = Append(readFiles, Head(pending).path)
  /\ tasks' = PushTasks(tasks, Head(pending))
  /\ pending' = Tail(pending)
  /\ UNCHANGED <<line, filePath, lineNumber, task, rendered, hashTagsLastIndex, earlier,
                 filter, verdict, parts, today, queryText, selected>>
  /\ UNCHANGED <<links, nodeEnv, request, response, scanned>>

NextBatch == ExtractTasksFromFile

SpecBatch == InitBatch /\ [][NextBatch]_vars

----------------------------------------------------------------------------
(* The server: the handlers of list_all_tasks and query_tasks, the path
   checks before them, and the file system they read *)

SLASH == <<"/">>

DOTDOT == <<".", ".">>

\* path.normalize(path.resolve(args[0])): the vault directory of the command line
vaultDirectory == <<"/", "v">>

\* the directories that exist, by their real paths: the vault, a directory
\* in it, a sibling whose name starts with the vault's name, an unrelated one
RealDirectories == {<<"/", "v">>, <<"/", "v", "/", "d">>, <<"/", "v", "x">>, <<"/", "o">>}

\* the one symbolic link of the file system, in the vault
LinkPath == <<"/", "v", "/", "s">>

\* where the link may point; the empty path: there is no link
LinkTargets == {<<>>, <<"/", "v", "/", "d">>, <<"/", "v", "x">>, <<"/", "o">>}

\* the markdown files, by real directory and name, with their content
MarkdownFiles ==
  << [dir |-> <<"/", "v">>, name |-> <<"a", ".", "m", "d">>, content |-> <<"-", " ", "[", "x", "]", " ", "t", "LF", "-", " ", "[", " ", "]", " ", "u", " ", "#", "a">>],
     [dir |-> <<"/", "v", "/", "d">>, name |-> <<"b", ".", "m", "d">>, content |-> <<"-", " ", "[", "x", "]", " ", "w">>],
     [dir |-> <<"/", "v", "x">>, name |-> <<"c", ".", "m", "d">>, content |-> <<"-", " ", "[", "x", "]", " ", "t", "LF", "-", " ", "[", " ", "]", " ", "u", " ", "#", "a">>],
     [dir |-> <<"/", "o">>, name |-> <<"e", ".", "m", "d">>, content |-> <<"-", " ", "[", "x", "]", " ", "w">>] >>

\* the segments of a path: what stands between its slashes
Segments(p) == SelectSeq(Split(p, SLASH), LAMBDA x : x # <<>> /\ x # <<".">>)

RECURSIVE WithoutDotDot(_, _)
\* path.normalize on segments: a '..' removes the segment before it
WithoutDotDot(done, rest) ==
  IF rest = <<>> THEN done
  ELSE IF Head(rest) = DOTDOT
       THEN WithoutDotDot(IF done = <<>> THEN <<>> ELSE SubSeq(done, 1, Len(done) - 1),
                          Tail(rest))
  ELSE WithoutDotDot(Append(done, Head(rest)), Tail(rest))

RECURSIVE FromSegments(_)
\* the absolute path of the segments
FromSegments(segs) ==
  IF segs = <<>> THEN <<>> ELSE SLASH \o Head(segs) \o FromSegments(Tail(segs))

\* path.normalize(p) for an absolute path p: a trailing slash is kept
normalizePath(p) ==
  LET segs == WithoutDotDot(<<>>, Segments(p))
  IN IF segs = <<>> THEN SLASH
     ELSE FromSegments(segs) \o (IF p[Len(p)] = "/" THEN SLASH ELSE <<>>)

\* path.join(a, b)
PathJoin(a, b) == normalizePath(a \o SLASH \o b)

\* path.dirname(p)
PathDirname(p) ==
  LET segs == Segments(p)
  IN IF Len(segs) <= 1 THEN SLASH ELSE FromSegments(SubSeq(segs, 1, Len(segs) - 1))

\* fs.realpath(p): the path with the link replaced by its target; it fails
\* when there is no such directory
Realpath(p) ==
  LET segs == WithoutDotDot(<<>>, Segments(p))
      link == Segments(LinkPath)
      viaLink == links # <<>> /\ Len(segs) >= Len(link) /\ SubSeq(segs, 1, Len(link)) = link
      real == IF viaLink
              THEN FromSegments(Segments(links) \o SubSeq(segs, Len(link) + 1, Len(segs)))
              ELSE FromSegments(segs)
  IN [exists |-> real \in RealDirectories, path |-> real]

\* variant: only a path that starts with '../' is refused
validateRelativePath_LeadingOnly(relativePath) == ~StartsWith(relativePath, <<".", ".", "/">>)

\* validateRelativePath(relativePath) returns, and does not throw
validateRelativePath(relativePath) == ~Includes(relativePath, DOTDOT)

\* the messages of the errors: their words, and the value that follows them
TraversalError(relativePath) ==
  [words |-> <<"Access", "denied", "-", "directory", "traversal", "detected", "in", "path:">>,
   argument |-> relativePath]

ParentError(parentDir) ==
  [words |-> <<"Parent", "directory", "does", "not", "exist:">>, argument |-> parentDir]

InvalidArgumentsError(tool) ==
  [words |-> <<"Invalid", "arguments", "for", tool>>, argument |-> <<>>]

NoError == [words |-> <<>>, argument |-> <<>>]

\* resolvePath(relativePath): the path it returns, or the error it throws
resolvePath(relativePath) ==
  LET absolute == IF relativePath = <<>> THEN vaultDirectory
                  ELSE PathJoin(vaultDirectory, relativePath)
      real == Realpath(absolute)
      parentDir == PathDirname(absolute)
      realParent == Realpath(parentDir)
  IN IF ~validateRelativePath(relativePath)
     THEN [error |-> TraversalError(relativePath), path |-> <<>>]
     ELSE IF nodeEnv = "test" THEN [error |-> NoError, path |-> absolute]
     ELSE IF real.exists /\ StartsWith(normalizePath(real.path), vaultDirectory)
     THEN [error |-> NoError, path |-> real.path]
     ELSE IF realParent.exists /\ StartsWith(normalizePath(realParent.path), vaultDirectory)
     THEN [error |-> NoError, path |-> absolute]
     ELSE [error |-> ParentError(parentDir), path |-> <<>>]

\* glob(path.join(startPath, '**/*.md')): the markdown files in the directory
\* startPath leads to and in the directories below it, named through startPath
findAllMarkdownFiles(startPath) ==
  LET real == Realpath(startPath)
      start == FromSegments(WithoutDotDot(<<>>, Segments(startPath)))
      below(f) == f.dir = real.path \/ StartsWith(f.dir, real.path \o SLASH)
      found == SelectSeq(MarkdownFiles, LAMBDA f : real.exists /\ below(f))
  IN [k \in 1..Len(found) |->
        [path |-> start \o SubSeq(found[k].dir, Len(real.path) + 1, Len(found[k].dir))
                    \o SLASH \o found[k].name,
         content |-> found[k].content,
         readable |-> TRUE]]

RECURSIVE TasksOfFiles(_)
\* findAllTasks: the tasks of the files, file after file
TasksOfFiles(files) ==
  IF files = <<>> THEN <<>>
  ELSE PushTasks(TasksOfFiles(SubSeq(files, 1, Len(files) - 1)), files[Len(files)])

\* serializeTasksToJson(tasks), by the ids of the tasks
serializeTasksToJson(ts) == [k \in 1..Len(ts) |-> ts[k].id]

\* the path arguments of the requests: none, the vault, a directory, the link,
\* paths that do not exist, an absolute path, paths with '..'
PathArguments ==
  {Undefined} \cup {Defined(a) : a \in {<<>>,
                              <<"d">>,
                              <<"d", "/">>,
                              <<"s">>,
                              <<"s", "/">>,
                              <<"n", "x">>,
                              <<"n", "x", "/", "y">>,
                              <<"/", "o">>,
                              <<".", ".">>,
                              <<".", ".", "/">>,
                              <<"d", "/", ".", ".">>,
                              <<"d", "/", ".", ".", "/", "s">>,
                              <<".", ".", "/", "v", "x">>,
                              <<"a", ".", ".", "b">>}}

\* the tool calls: the path is a string (when it is there) or a number, and
\* the query is a string or missing
ServerRequests ==
  {[tool |-> "list_all_tasks", isObject |-> TRUE, path |-> a, pathIsString |-> TRUE,
    query |-> Undefined, queryIsString |-> TRUE] : a \in PathArguments}
  \cup {[tool |-> "query_tasks", isObject |-> TRUE, path |-> a, pathIsString |-> TRUE,
          query |-> qu, queryIsString |-> TRUE] :
          a \in PathArguments, qu \in {Undefined, Defined(DONE), Defined(HAS_TAGS)}}
  \cup {[tool |-> t, isObject |-> TRUE, path |-> Defined(<<"5">>), pathIsString |-> FALSE,
          query |-> Defined(DONE), queryIsString |-> TRUE] :
          t \in {"list_all_tasks", "query_tasks"}}
  \cup {[tool |-> t, isObject |-> TRUE, path |-> a, pathIsString |-> TRUE,
          query |-> Defined(<<"5">>), queryIsString |-> FALSE] :
          t \in {"list_all_tasks", "query_tasks"}, a \in {Undefined, Defined(<<"d">>)}}
  \cup {[tool |-> t, isObject |-> FALSE, path |-> Undefined, pathIsString |-> TRUE,
          query |-> Undefined, queryIsString |-> TRUE] :
          t \in {"list_all_tasks", "query_tasks"}}

\* the error response of the handlers' catch: one element of content, its
\* text, and isError
ErrorResponse(error) ==
  [content |-> <<[type |-> "text"]>>, isError |-> TRUE,
   text |-> [words |-> <<"Error:">> \o error.words, argument |-> error.argument]]

\* the response with the tasks: one element of content and its text; isError
\* is not set
TasksResponse(ts) ==
  [content |-> <<[type |-> "text"]>>, isError |-> FALSE,
   text |-> [words |-> <<>>, argument |-> serializeTasksToJson(ts)]]

\* variant: the error leaves the handler, which returns no response
Refused_Rethrown(error) ==
  [response |-> Null, scanned |-> <<>>, readFiles |-> <<>>, tasks |-> <<>>, selected |-> <<>>]

\* the record of a request that was refused: the error is caught, the error
\* response returned, nothing scanned and nothing read
Refused(error) ==
  [response |-> ErrorResponse(error), scanned |-> <<>>, readFiles |-> <<>>,
   tasks |-> <<>>, selected |-> <<>>]

\* the record of a request that was answered with the tasks
Answered(validPath, files, allTasks, isQuery, filteredTasks) ==
  [response |-> TasksResponse(IF isQuery THEN filteredTasks ELSE allTasks),
   scanned |-> <<validPath.path>>,
   readFiles |-> [k \in 1..Len(files) |-> files[k].path],
   tasks |-> allTasks, selected |-> filteredTasks]

\* the handler after findAllTasks: for query_tasks, queryTasks
Queried(validPath, files, allTasks, isQuery) ==
  Answered(validPath, files, allTasks, isQuery,
           IF isQuery THEN queryTasks(allTasks, request.query.value) ELSE <<>>)

\* findAllTasks(validPath): the files found, then their tasks
findAllTasks(validPath, files, isQuery) ==
  Queried(validPath, files, TasksOfFiles(files), isQuery)

\* the handler after resolvePath: its error is caught, or the tasks are found
Resolved(validPath, isQuery) ==
  IF validPath.error # NoError THEN Refused(validPath.error)
  ELSE findAllTasks(validPath, findAllMarkdownFiles(validPath.path), isQuery)

\* what a handler does with the request: safeParse of the arguments,
\* resolvePath, findAllTasks and, for query_tasks, queryTasks
Handled(schemaError, isQuery) ==
  IF \/ ~request.isObject
     \/ ~request.pathIsString
     \/ isQuery /\ (~request.query.defined \/ ~request.queryIsString)
  THEN Refused(schemaError)
  ELSE Resolved(resolvePath(IF request.path.defined THEN request.path.value ELSE <<>>),
                isQuery)

InitServer ==
  /\ op = "input"
  /\ request \in ServerRequests
  /\ links \in LinkTargets
  /\ nodeEnv \in {"test", "production"}
  /\ response = Null
  /\ scanned = <<>>
  /\ readFiles = <<>>
  /\ pending = <<>>
  /\ today = Date2
  /\ line = <<>>
  /\ filePath = <<>>
  /\ lineNumber = 0
  /\ parts = <<>>
  /\ task = Null
  /\ rendered = <<>>
  /\ hashTagsLastIndex = 0
  /\ earlier = Null
  /\ filter = <<>>
  /\ verdict = FALSE
  /\ tasks = <<>>
  /\ queryText = <<>>
  /\ selected = <<>>

\* handleListAllTasksRequest(args)
HandleListAllTasksRequest ==
  /\ op = "input"
  /\ request.tool = "list_all_tasks"
  /\ op' = "handleListAllTasksRequest"
  /\ \E h \in {Handled(InvalidArgumentsError("list_all_tasks:"), FALSE)} :
        /\ response' = h.response
        /\ scanned' = h.scanned
        /\ readFiles' = h.readFiles
        /\ tasks' = h.tasks
  /\ UNCHANGED <<line, filePath, lineNumber, task, rendered, hashTagsLastIndex, earlier,
                 filter, verdict, parts, today, queryText, selected>>
  /\ UNCHANGED <<pending, links, nodeEnv, request>>

\* handleQueryTasksRequest(args)
HandleQueryTasksRequest ==
  /\ op = "input"
  /\ request.tool = "query_tasks"
  /\ op' = "handleQueryTasksRequest"
  /\ \E h \in {Handled(InvalidArgumentsError("query_tasks:"), TRUE)} :
        /\ response' = h.response
        /\ scanned' = h.scanned
        /\ readFiles' = h.readFiles
        /\ tasks' = h.tasks
        /\ selected' = h.selected
  /\ queryText' = IF request.query.defined THEN request.query.value ELSE <<>>
  /\ UNCHANGED <<line, filePath, lineNumber, task, rendered, hashTagsLastIndex, earlier,
                 filter, verdict, parts, today>>
  /\ UNCHANGED <<pending, links, nodeEnv, request>>

NextServer == HandleListAllTasksRequest \/ HandleQueryTasksRequest

SpecServer == InitServer /\ [][NextServer]_vars

----------------------------------------------------------------------------
(* Claims about the recognizer, checked under Spec *)

\* parseTaskLine has returned a task for line
Recognised == op # "input" /\ task # Null

\* the character between the first "[" of a line and the "]" that closes it
CheckboxCharacter(l) ==
  LET b == IndexOfFrom(l, <<"[">>, 1)
  IN SubSeq(l, b + 1, IndexOfFrom(l, <<"]">>, b + 2) - 1)

\* C4: for every recognised line the status is decided by the checkbox
\* character alone (x, X: complete; -: cancelled; /: in_progress; space, >, <:
\* incomplete; anything else: non_task), and statusSymbol is that character
C4_StatusFromCheckbox ==
  Recognised =>
    LET c == CheckboxCharacter(line)
    IN /\ task.statusSymbol = c
       /\ c \in {<<"x">>, <<"X">>} => task.status = "complete"
       /\ c = <<"-">> => task.status = "cancelled"
       /\ c = <<"/">> => task.status = "in_progress"
       /\ c \in {<<" ">>, <<">">>, <<"<">>} => task.status = "incomplete"
       /\ c \notin {<<"x">>, <<"X">>, <<"-">>, <<"/">>, <<" ">>, <<">">>, <<"<">>}
            => task.status = "non_task"

\* a line with an unrecognised checkbox character is returned as a non_task
C4_Witness ==
  /\ Recognised
  /\ task.status = "non_task"
  /\ task.statusSymbol = <<"UD83D", "UDD3C">>

\* a list marker: -, *, +, or digits followed by . or )
IsListMarker(m) ==
  \/ m \in {<<"-">>, <<"*">>, <<"+">>}
  \/ /\ Len(m) >= 2
     /\ \A k \in 1..(Len(m) - 1) : m[k] \in Digits
     /\ m[Len(m)] \in {".", ")"}

\* one character: a code unit, or a surrogate pair
IsOneCharacter(c) ==
  \/ Len(c) = 1
  \/ Len(c) = 2 /\ c[1] \in HighSurrogates /\ c[2] \in LowSurrogates

\* the line has the shape: indentation, list marker, one or more spaces, "[",
\* one character that is not in excluded, "]"
HasTaskShape(l, excluded) ==
  \E i \in 1..Len(l) :
    /\ \A n \in 1..(i - 1) : l[n] \in WhiteSpace \cup {">"}
    /\ \E j \in (i + 1)..Len(l) :
         /\ IsListMarker(SubSeq(l, i, j - 1))
         /\ \E k \in (j + 1)..Len(l) :
              /\ \A n \in j..(k - 1) : l[n] = " "
              /\ l[k] = "["
              /\ \E e \in {k + 2, k + 3} :
                   /\ e <= Len(l)
                   /\ l[e] = "]"
                   /\ IsOneCharacter(SubSeq(l, k + 1, e - 1))
                   /\ l[k + 1] \notin excluded

\* C5 as claimed: parseTaskLine returns null exactly for the lines without the
\* shape indentation, list marker, spaces, "[" + exactly one character + "]"
C5_NullIffNoShape ==
  op = "parseTaskLine" => (task = Null <=> ~HasTaskShape(line, {}))

\* C5, amended: parseTaskLine returns null exactly for the lines without the
\* shape indentation, list marker, spaces, "[" + exactly one character that is
\* not a line terminator + "]"; a line with the shape yields one task
C5_NullIffNoShapeOrLineTerminator ==
  op = "parseTaskLine" => (task = Null <=> ~HasTaskShape(line, LineTerminators))

\* a line whose checkbox holds a carriage return is not recognised
C5_Witness ==
  /\ op = "parseTaskLine"
  /\ task = Null
  /\ HasTaskShape(line, {})

\* a priority marker starts at index p of d
PriorityGlyphAt(d, p) ==
  \/ HasAt(d, p, <<"U23EB">>)
  \/ HasAt(d, p, <<"UD83D", "UDD3C">>)
  \/ HasAt(d, p, <<"UD83D", "UDD3D">>)
  \/ HasAt(d, p, <<"U23EC">>)

\* C6: the priority is that of the leftmost priority marker of the
\* description, a doubled high marker read as highest; none: absent
C6_LeftmostPriority ==
  Recognised =>
    LET d == task.description
    IN IF \E p \in 1..Len(d) : PriorityGlyphAt(d, p)
       THEN LET p == CHOOSE p \in 1..Len(d) :
                       PriorityGlyphAt(d, p) /\ \A q \in 1..(p - 1) : ~PriorityGlyphAt(d, q)
            IN task.priority =
                 Defined(IF HasAt(d, p, <<"U23EB", "U23EB">>) THEN "highest"
                         ELSE IF d[p] = "U23EB" THEN "high"
                         ELSE IF d[p] = "U23EC" THEN "lowest"
                         ELSE IF d[p + 1] = "UDD3C" THEN "medium"
                         ELSE "low")
       ELSE task.priority = Undefined

\* a lowest marker stands before a highest marker, and lowest it is
C6_Witness ==
  /\ Recognised
  /\ task.priority = Defined("lowest")
  /\ Includes(task.description, <<"U23EB", "U23EB">>)

RECURSIVE OccursInOrder(_, _, _)
\* the tags occur in d one after the other, from index from on, each at the
\* start of d or after a white space character
OccursInOrder(d, tags, from) ==
  \/ Len(tags) = 0
  \/ \E p \in from..Len(d) :
       /\ HasAt(d, p, tags[1])
       /\ p = 1 \/ d[p - 1] \in WhiteSpace
       /\ OccursInOrder(d, Tail(tags), p + Len(tags[1]))

\* the tag a word starts with: "#" and the characters up to the next stop
\* character
TagOfWord(w) == SubSeq(w, 1, SkipUntil(w, 2, HashTagStop) - 1)

\* the tags of the words of d that start with "#" and one more character of a
\* tag, in the order of the words
WordTags(d) ==
  LET words == Split(d, <<" ">>)
      tagWords == SelectSeq(words, LAMBDA w : StartsWith(w, <<"#">>) /\ Len(TagOfWord(w)) >= 2)
  IN [k \in 1..Len(tagWords) |-> TagOfWord(tagWords[k])]

\* C7: the tags are listed in the order in which they occur in the
\* description, each with its leading "#", repeated tags repeated, "/" kept;
\* the description "#a #a/b text" gives <<"#a", "#a/b">>
C7_TagsInOrder ==
  Recognised =>
    LET d == task.description
    IN /\ \A k \in 1..Len(task.tags) : StartsWith(task.tags[k], <<"#">>)
       /\ OccursInOrder(d, task.tags, 1)
       /\ (\A n \in 1..Len(d) : d[n] \in WhiteSpace => d[n] = " ")
            => task.tags = WordTags(d)
       /\ d = <<"#", "a", " ", "#", "a", "/", "b", " ", "t", "e", "x", "t">>
            => task.tags = << <<"#", "a">>, <<"#", "a", "/", "b">> >>

\* "#a/b #a #a" is recognised with its three tags, the repeated one twice
C7_Witness ==
  /\ Recognised
  /\ task.description = <<"#", "a", "/", "b", " ", "#", "a", " ", "#", "a">>
  /\ task.tags = << <<"#", "a", "/", "b">>, <<"#", "a">>, <<"#", "a">> >>

\* C9: originalMarkdown, and so taskToString, is the line, unchanged
C9_RoundTrip ==
  /\ Recognised => task.originalMarkdown = line
  /\ op = "taskToString" => rendered = line

\* an indented line that ends in white space has been written back
C9_Witness ==
  /\ op = "taskToString"
  /\ line[1] = "TAB"
  /\ line[Len(line)] = "CR"
  /\ rendered = line

\* the kind of marker a piece of a description starts with
KindOf(piece) ==
  IF StartsWith(piece, <<"#">>) THEN "tag"
  ELSE IF StartsWith(piece, <<"UD83D", "UDDD3">>) \/ StartsWith(piece, <<"UD83D", "UDCC5">>)
       THEN "due"
  ELSE IF StartsWith(piece, <<"U23F3">>) THEN "scheduled"
  ELSE IF StartsWith(piece, <<"UD83D", "UDEEB">>) THEN "start"
  ELSE IF StartsWith(piece, <<"U2795">>) THEN "created"
  ELSE IF StartsWith(piece, RecurrenceMarker) THEN "recurrence"
  ELSE IF PriorityGlyphAt(piece, 1) THEN "priority"
  ELSE "text"

\* the field of a task that a kind of marker sets
FieldOf(t, kind) ==
  CASE kind = "tag" -> t.tags
    [] kind = "due" -> t.dueDate
    [] kind = "scheduled" -> t.scheduledDate
    [] kind = "start" -> t.startDate
    [] kind = "created" -> t.createdDate
    [] kind = "priority" -> t.priority
    [] kind = "recurrence" -> t.recurrence

MarkerKinds == {"tag", "due", "scheduled", "start", "created", "priority", "recurrence"}

\* the pieces with the markers of every other kind removed
WithoutOtherMarkers(ps, kind) == SelectSeq(ps, LAMBDA x : KindOf(x) \in {kind, "text"})

\* the field of kind has the value it has when the other markers are removed
SameWithoutOthers(kind) ==
  FieldOf(task, kind) =
    FieldOf(parseTaskLine(TaskPrefix \o Join(WithoutOtherMarkers(parts, kind)),
                          filePath, lineNumber), kind)

\* the code units of the marker glyphs
GlyphUnits ==
  {"U23EB", "U23EC", "U23F3", "U2795", "UFE0F"} \cup HighSurrogates \cup LowSurrogates

\* a piece that is a whole item: a tag or a word without white space and
\* without a marker glyph, a date marker with its date, a priority marker, a
\* recurrence marker with a rule word
IsWholeItem(piece) ==
  /\ piece # RecurrenceMarker
  /\ KindOf(piece) \in {"tag", "text"} =>
       \A k \in 1..Len(piece) : piece[k] \notin GlyphUnits \cup WhiteSpace

\* the README's example line gives the README's fields
ExampleFields ==
  (parts = ExamplePieces /\ CheckboxCharacter(line) = <<" ">>) =>
    /\ task.status = "incomplete"
    /\ task.dueDate = Defined(Date1)
    /\ task.scheduledDate = Defined(Date2)
    /\ task.tags = << <<"#", "w", "o", "r", "k">> >>
    /\ task.priority = Defined("high")

----------------------------------------------------------------------------
(* Claims about the filter evaluator, checked under SpecFilter *)

\* C1 as claimed: applyFilter(task, 'not done') is true exactly when the
\* status is incomplete or in_progress
C1_NotDoneIsActive ==
  (op = "applyFilter" /\ filter = NOT_DONE) =>
    (verdict <=> task.status \in {"incomplete", "in_progress"})

\* the filter is a or b and c, for atoms a, b and c
IsOrAnd == Len(parts) = 5 /\ parts[2] = OR_LOWER /\ parts[4] = AND_LOWER

----------------------------------------------------------------------------
(* Claims about the query evaluator, checked under SpecQuery *)

\* a line of a query that counts: not blank and not a comment
IsEffectiveLine(l) == Trim(l) # <<>> /\ Trim(l)[1] # "#"

\* C3: queryTasks returns exactly the tasks that applyFilter accepts on every
\* line that is neither blank nor a comment; 'done' and 'has tag a' on two
\* lines select the complete tasks tagged #a
C3_LinesAreConjoined ==
  op = "queryTasks" =>
    /\ selected =
         SelectSeq(tasks, LAMBDA t :
           \A k \in 1..Len(parts) : IsEffectiveLine(parts[k]) => applyFilter(t, parts[k]))
    /\ parts = <<DONE, HAS_TAG_ \o <<"a">>>> =>
         selected =
           SelectSeq(tasks, LAMBDA t :
             t.status = "complete" /\ \E k \in 1..Len(t.tags) : t.tags[k] = <<"#", "a">>)

\* a query of a clause, a comment and another clause selects some task, and
\* rejects a task that one of the clauses accepts
C3_Witness ==
  /\ op = "queryTasks"
  /\ Len(parts) = 3
  /\ IsEffectiveLine(parts[1])
  /\ ~IsEffectiveLine(parts[2])
  /\ IsEffectiveLine(parts[3])
  /\ Len(selected) > 0
  /\ \E k \in 1..Len(tasks) :
       /\ applyFilter(tasks[k], parts[1])
       /\ ~applyFilter(tasks[k], parts[3])
       /\ \A j \in 1..Len(selected) : selected[j] # tasks[k]

----------------------------------------------------------------------------
(* Claims about calls in sequence, checked under SpecHistory *)

\* C10: a parseTaskLine call returns what an earlier call with the same
\* arguments returned, whatever was called in between, and the shared
\* hashTags pattern is left with lastIndex 0
C10_SameArgumentsSameTask ==
  /\ hashTagsLastIndex = 0
  /\ (op = "parseTaskLine" /\ earlier # Null /\ earlier.line = line
        /\ earlier.filePath = filePath /\ earlier.lineNumber = lineNumber)
       => task = earlier.result

\* a line with three tags has been parsed again after an applyFilter call
C10_Witness ==
  /\ op = "parseTaskLine"
  /\ earlier # Null
  /\ earlier.line = line
  /\ earlier.filePath = filePath
  /\ earlier.lineNumber = lineNumber
  /\ task # Null
  /\ Len(task.tags) = 3
  /\ filter # <<>>

----------------------------------------------------------------------------
(* Claims about single predicates, checked under SpecFilter *)

\* the filter is a keyword followed by an argument
IsPredicateClause == op = "applyFilter" /\ Len(parts) = 2

\* the clauses C12 names: unknown text, the empty clause, due before and due
\* after without a date, an unknown priority level, tag clauses without a tag
TotalityCases ==
  {<<ZZZ, <<>>>>, <<<<>>, <<>>>>, <<DUE_BEFORE_, XYZ>>, <<DUE_AFTER, <<>>>>,
   <<PRIORITY_IS_, URGENT>>, <<HAS_TAG_, <<>>>>, <<TAG_INCLUDES_, <<>>>>}

\* C12: applyFilter throws for no task and no clause and returns a boolean;
\* a clause that no connective and no rule applies to is a search for the
\* lower-cased, trimmed clause in the lower-cased description, and so are the
\* clauses with a missing or malformed argument
C12_Total ==
  op = "applyFilter" =>
    LET f == Trim(ToLowerCase(filter))
    IN /\ ~applyFilterThrows(task, filter)
       /\ verdict \in BOOLEAN
       /\ (Connective(f) = "none" /\ RuleOf(f) = "fallback")
            => (verdict <=> Includes(ToLowerCase(task.description), f))
       /\ parts \in TotalityCases => (Connective(f) = "none" /\ RuleOf(f) = "fallback")

\* 'due before xyz' has been applied, and searched for in the description
C12_Witness ==
  /\ op = "applyFilter"
  /\ parts = <<DUE_BEFORE_, XYZ>>
  /\ RuleOf(filter) = "fallback"
  /\ ~verdict

\* the calendar day of a YYYY-MM-DD string, as a number
DayNumber(d) ==
  LET v(k) == DateUnitCode(d[k]) - 48
  IN (v(1) * 1000 + v(2) * 100 + v(3) * 10 + v(4)) * 10000
       + (v(6) * 10 + v(7)) * 100 + v(9) * 10 + v(10)

\* the three comparisons with the date named by argument a (today when empty)
DueOn(t, a) == applyFilter(t, IF a = <<>> THEN DUE_TODAY ELSE DUE_ \o a)

DueOnWord(t, a) == applyFilter(t, IF a = <<>> THEN DUE_TODAY ELSE DUE_ON_ \o a)

DueBefore(t, a) == applyFilter(t, IF a = <<>> THEN DUE_BEFORE_TODAY ELSE DUE_BEFORE_ \o a)

DueAfter(t, a) == applyFilter(t, IF a = <<>> THEN DUE_AFTER_TODAY ELSE DUE_AFTER_ \o a)

\* the argument of the clause is empty or a date
HasDateArgument == IsPredicateClause /\ parts[2] \in {<<>>, Date1, Date2, Date3}

\* C13: with D today or the date of the clause, the on, before and after
\* clauses hold exactly when the due date is the same day as D, an earlier
\* day, a later day; a task without due date satisfies none of them, and
\* 'no due date' but not 'has due date'
C13_DueDatesByCalendarDay ==
  (HasDateArgument /\ parts[1] \in {DUE_TODAY, DUE_, DUE_ON_, DUE_BEFORE_, DUE_AFTER_,
                                    DUE_BEFORE_TODAY, DUE_AFTER_TODAY})
    => LET a == parts[2]
           D == DayNumber(IF a = <<>> THEN today ELSE a)
           has == task.dueDate.defined
           day == DayNumber(task.dueDate.value)
       IN /\ DueOn(task, a) <=> (has /\ day = D)
          /\ DueOnWord(task, a) <=> (has /\ day = D)
          /\ DueBefore(task, a) <=> (has /\ day < D)
          /\ DueAfter(task, a) <=> (has /\ day > D)
          /\ applyFilter(task, NO_DUE_DATE) <=> ~has
          /\ applyFilter(task, HAS_DUE_DATE) <=> has
          /\ verdict <=> applyFilter(task, filter)

\* a task due in April has been found due before a day in May of that year
C13_Witness ==
  /\ op = "applyFilter"
  /\ parts = <<DUE_BEFORE_, Date1>>
  /\ task.dueDate = Defined(Date2)
  /\ verdict

\* some tag of t contains name, a leading '#' of the name aside
SomeTagContains(t, name) ==
  \E k \in 1..Len(t.tags) : Includes(t.tags[k], StripHash(name))

\* C14 as claimed: 'tag include <t>' is true exactly when a tag contains <t>
C14_TagInclude ==
  (IsPredicateClause /\ parts[1] = TAG_INCLUDE_)
    => (verdict <=> SomeTagContains(task, parts[2]))

\* C15 as claimed: 'tag do not include <t>' is true exactly when no tag
\* contains <t>
C15_TagDoNotInclude ==
  (IsPredicateClause /\ parts[1] = TAG_DO_NOT_INCLUDE_)
    => (verdict <=> ~SomeTagContains(task, parts[2]))

\* C16 as claimed: 'has tag <name>' is true exactly when a tag equals <name>,
\* one leading '#' of each aside, in any letter case
C16_HasTagExact ==
  (IsPredicateClause /\ parts[1] = HAS_TAG_ /\ parts[2] # <<>>)
    => (verdict <=> \E k \in 1..Len(task.tags) : StripHash(task.tags[k]) = StripHash(parts[2]))

\* C17 as claimed: the includes clauses search the path and the description
\* for s, ignoring case, whatever s contains, and the does-not-include
\* clauses are their negations
C17_IncludesWholeArgument ==
  (IsPredicateClause /\ parts[2] # <<>>)
    => LET s == ToLowerCase(parts[2])
       IN /\ parts[1] = PATH_INCLUDES_
               => (verdict <=> Includes(ToLowerCase(task.filePath), s))
          /\ parts[1] = PATH_DOES_NOT_INCLUDE_
               => (verdict <=> ~Includes(ToLowerCase(task.filePath), s))
          /\ parts[1] = DESCRIPTION_INCLUDES_
               => (verdict <=> Includes(ToLowerCase(task.description), s))
          /\ parts[1] = DESCRIPTION_DOES_NOT_INCLUDE_
               => (verdict <=> ~Includes(ToLowerCase(task.description), s))

\* the levels of the priority clauses, and the priority each one names
PriorityLevels ==
  {<<HIGHEST, Defined("highest")>>, <<HIGH, Defined("high")>>, <<MEDIUM, Defined("medium")>>,
   <<LOW, Defined("low")>>, <<LOWEST, Defined("lowest")>>, <<NONE, Undefined>>}

\* C18: of the six priority clauses exactly one is true of a parsed task, the
\* one that names its priority, 'none' naming the absent priority
C18_OnePriorityClause ==
  (IsPredicateClause /\ parts[1] = PRIORITY_IS_ /\ \E l \in PriorityLevels : l[1] = parts[2])
    => /\ \A l \in PriorityLevels :
            applyFilter(task, PRIORITY_IS_ \o l[1]) <=> (task.priority = l[2])
       /\ Cardinality({l \in PriorityLevels : applyFilter(task, PRIORITY_IS_ \o l[1])}) = 1
       /\ verdict <=> applyFilter(task, filter)

\* 'priority is none' has accepted a task without priority marker
C18_Witness ==
  /\ op = "applyFilter"
  /\ parts = <<PRIORITY_IS_, NONE>>
  /\ ~task.priority.defined
  /\ verdict

----------------------------------------------------------------------------
(* Claims about a batch, checked under SpecBatch *)

\* C11: the id is injective on (filePath, lineNumber) pairs, also for paths
\* with ':' and digits, and no two tasks of a batch over files with distinct
\* paths have the same id
C11_IdsDistinct ==
  /\ \A f \in BatchPaths, g \in BatchPaths,
        m \in 0..(MaxBatchLines + 9), n \in 0..(MaxBatchLines + 9) :
       IdOf(f, m) = IdOf(g, n) => (f = g /\ m = n)
  /\ \A i \in 1..Len(tasks), j \in 1..Len(tasks) : tasks[i].id = tasks[j].id => i = j
  /\ \A i \in 1..Len(tasks) : tasks[i].id = IdOf(tasks[i].filePath, tasks[i].lineNumber)

\* two files have been read, and both have tasks on their first two lines
C11_Witness ==
  /\ pending = <<>>
  /\ Len(readFiles) = 2
  /\ Len(tasks) = 4
  /\ tasks[1].lineNumber = 0
  /\ tasks[2].lineNumber = 1
  /\ tasks[3].lineNumber = 0
  /\ tasks[1].filePath # tasks[3].filePath

----------------------------------------------------------------------------
(* Claims about the server, checked under SpecServer *)

\* a handler has returned
HasResponded == op \in {"handleListAllTasksRequest", "handleQueryTasksRequest"}

\* the path argument is a string with a '..' component
HasTraversalComponent ==
  /\ request.pathIsString
  /\ request.path.defined
  /\ \E k \in 1..Len(Split(request.path.value, SLASH)) :
       Split(request.path.value, SLASH)[k] = DOTDOT

\* the words occur in the text, one after the other
ContainsWords(text, ws) ==
  \E i \in 1..(Len(text.words) - Len(ws) + 1) : SubSeq(text.words, i, i + Len(ws) - 1) = ws

\* the response is the directory traversal error
IsTraversalError == response.isError /\ ContainsWords(response.text, <<"directory", "traversal">>)

\* C19 as claimed: every request whose path has a '..' component gets the
\* directory traversal error, and nothing is scanned or read for it
C19_TraversalRejected ==
  (HasResponded /\ HasTraversalComponent)
    => (IsTraversalError /\ scanned = <<>> /\ readFiles = <<>>)

\* the arguments pass the schema of the tool
HasValidArguments ==
  /\ request.isObject
  /\ request.pathIsString
  /\ request.tool = "query_tasks" => (request.query.defined /\ request.queryIsString)

\* C19, amended: a request whose path has a '..' component is rejected and
\* nothing is scanned or read for it; the error is the directory traversal
\* error when the arguments pass the schema, and the invalid arguments error
\* when they do not
C19_TraversalOrArgumentsRejected ==
  (HasResponded /\ HasTraversalComponent)
    => /\ response.isError
       /\ scanned = <<>>
       /\ readFiles = <<>>
       /\ HasValidArguments => IsTraversalError
       /\ ~HasValidArguments => ContainsWords(response.text, <<"Invalid", "arguments">>)

\* a query for a directory, '..' and the link has been rejected
C19_Witness ==
  /\ op = "handleQueryTasksRequest"
  /\ request.path = Defined(<<"d", "/", ".", ".", "/", "s">>)
  /\ request.query.defined
  /\ links # <<>>
  /\ IsTraversalError
  /\ scanned = <<>>

\* the path is the vault directory or a path below it
InsideVault(p) == p = vaultDirectory \/ StartsWith(p, vaultDirectory \o SLASH)

\* C20 as claimed, for the server outside its test mode: the directory
\* scanned for an accepted request is the vault directory or inside it, also
\* after symbolic links are resolved
C20_ScanInsideVault ==
  (HasResponded /\ ~response.isError /\ nodeEnv = "production")
    => \A k \in 1..Len(scanned) :
         /\ InsideVault(FromSegments(WithoutDotDot(<<>>, Segments(scanned[k]))))
         /\ Realpath(scanned[k]).exists => InsideVault(Realpath(scanned[k]).path)

----------------------------------------------------------------------------
(* Claims about the connectives, checked under SpecFilter *)

\* the pieces of the filter are atoms with a connective between each two: the
\* connectives in any letter case, the atoms without a connective in them
IsConnectiveClause ==
  /\ Len(parts) % 2 = 1
  /\ \A k \in 1..Len(parts) :
       IF k % 2 = 0 THEN ToLowerCase(parts[k]) \in {AND_LOWER, OR_LOWER}
       ELSE /\ ~Includes(ToLowerCase(parts[k]), AND_LOWER)
            /\ ~Includes(ToLowerCase(parts[k]), OR_LOWER)
            /\ Trim(parts[k]) # <<>>

RECURSIVE AtomTruth(_, _)
\* the truth of an atom: a leading 'not ' negates the rest
AtomTruth(t, a) ==
  LET f == Trim(ToLowerCase(a))
  IN IF StartsWith(f, NOT_PREFIX) THEN ~AtomTruth(t, SubSeq(f, 5, Len(f)))
     ELSE ApplyPredicate(t, f)

\* the atoms that start a part between two ' and '
AndPartStarts(ps) ==
  {k \in 1..Len(ps) : k % 2 = 1 /\ (k = 1 \/ ToLowerCase(ps[k - 1]) = AND_LOWER)}

\* the atoms of the part that starts at g: they are joined by ' or '
AndPartAtoms(ps, g) ==
  {k \in g..Len(ps) :
     /\ k % 2 = 1
     /\ \A j \in g..k : j % 2 = 0 => ToLowerCase(ps[j]) = OR_LOWER}

----------------------------------------------------------------------------
(* Claims about negation and disjunction in queries, checked under SpecQuery *)

\* the tasks of ts that are not among kept
Rejected(ts, kept) ==
  SelectSeq(ts, LAMBDA t : \A k \in 1..Len(kept) : kept[k] # t)

\* the tasks of ts that are among one or among other
UnionOf(ts, one, other) ==
  SelectSeq(ts, LAMBDA t : \/ \E k \in 1..Len(one) : one[k] = t
                          \/ \E k \in 1..Len(other) : other[k] = t)

\* the line 'not A' returns the tasks the line 'A' rejects, and the line
\* 'A or B' the tasks of 'A' and of 'B', for the atoms of the set
NotAndOrOfLines(atoms) ==
  op = "queryTasks" =>
    /\ \A a \in atoms :
         parts = <<NOT_PREFIX \o a>> => selected = Rejected(tasks, queryTasks(tasks, a))
    /\ \A a \in atoms : \A b \in atoms :
         parts = <<a \o OR_LOWER \o b>> =>
           selected = UnionOf(tasks, queryTasks(tasks, a), queryTasks(tasks, b))

IsPlainAtom(a) ==
  LET f == Trim(ToLowerCase(a))
  IN /\ f # <<>>
     /\ ~StartsWith(f, <<"#">>)
     /\ \A w \in {<<"a", "n", "d">>, <<"o", "r">>} :
          /\ ~StartsWith(f, w \o <<" ">>)
          /\ ~(Len(f) > Len(w) /\ SubSeq(f, Len(f) - Len(w), Len(f)) = <<" ">> \o w)

----------------------------------------------------------------------------
(* Claims about the fields of a task, checked under Spec *)

\* the places of a description where a tag starts: a '#' at the start or after
\* a whitespace character, followed by a character that a tag may hold
TagStarts(d) ==
  {i \in 1..Len(d) :
     /\ d[i] = "#"
     /\ i = 1 \/ d[i - 1] \in WhiteSpace
     /\ i < Len(d)
     /\ d[i + 1] \notin HashTagStop}

\* C23 as claimed: every '#' at the start of the description or after a
\* whitespace character, followed by a character outside the exclusion set,
\* yields one entry of tags, also after a tab; and no other '#' does
C23_TagsComplete ==
  Recognised =>
    /\ Len(task.tags) = Cardinality(TagStarts(task.description))
    /\ \A i \in TagStarts(task.description) :
         \E k \in 1..Len(task.tags) : HasAt(task.description, i, task.tags[k])

\* the due-date marker glyphs: the calendar, and the spiral calendar with
\* and without its variation selector
DueGlyphs == {<<"UD83D", "UDCC5">>, <<"UD83D", "UDDD3", "UFE0F">>, <<"UD83D", "UDDD3">>}

\* the places of a description where a date stands after glyph g and at
\* most one whitespace character
DatesAfter(d, g) == {i \in 1..Len(d) : MarkedDateAt(d, i, g) # 0}

\* C24 as claimed: dueDate is present exactly when a due-date marker glyph
\* followed by at most one whitespace character and a date occurs in the
\* description, and is then the first such date; a date after any other
\* glyph or character never sets dueDate
C24_DueDateOnlyFromDueGlyph ==
  Recognised =>
    LET d == task.description
        places == UNION {DatesAfter(d, g) : g \in DueGlyphs}
        first == CHOOSE i \in places : \A j \in places : i <= j
        glyph == CHOOSE g \in DueGlyphs : first \in DatesAfter(d, g)
        date == MarkedDateAt(d, first, glyph)
    IN IF places = {} THEN ~task.dueDate.defined
       ELSE task.dueDate = Defined(SubSeq(d, date, date + 9))

\* the words 'every' and 'week'
EVERY == <<"e", "v", "e", "r", "y">>

WEEK == <<"w", "e", "e", "k">>

IsAbsentOrDate(v) == v.defined => (Len(v.value) = 10 /\ DateAt(v.value, 1))

\* C26 as claimed: every task parseTaskLine returns is well formed: the tags
\* start with '#' and have at least one more character, the dates are absent
\* or dddd-dd-dd strings, priority is absent or one of the five levels,
\* status is one of the five values, and description has no white space at
\* its ends
C26_WellFormed ==
  Recognised =>
    /\ \A k \in 1..Len(task.tags) : Len(task.tags[k]) >= 2 /\ task.tags[k][1] = "#"
    /\ \A v \in {task.dueDate, task.scheduledDate, task.startDate, task.createdDate} :
         IsAbsentOrDate(v)
    /\ task.priority.defined =>
         task.priority.value \in {"highest", "high", "medium", "low", "lowest"}
    /\ task.status \in {"incomplete", "complete", "cancelled", "in_progress", "non_task"}
    /\ task.description = Trim(task.description)

----------------------------------------------------------------------------
(* Claims about the responses of the handlers, checked under SpecServer *)

\* the texts an error response starts with, after 'Error:'
ErrorTexts ==
  {<<"Error:">> \o InvalidArgumentsError(t).words : t \in {"list_all_tasks:", "query_tasks:"}}
  \cup {<<"Error:">> \o TraversalError(<<>>).words, <<"Error:">> \o ParentError(<<>>).words}

\* C27: the handlers answer every request, whatever its arguments, and never
\* throw: the response has one element of content, of type text; when the
\* arguments pass the schema and the path is resolved, the text is the array
\* of the tasks and isError is not set; when the arguments fail the schema,
\* the path is rejected or its directory cannot be resolved, the text starts
\* with 'Error: ' and isError is true
C27_AlwaysOneTextResponse ==
  HasResponded =>
    /\ response # Null
    /\ LET failed == \/ ~HasValidArguments
                     \/ resolvePath(IF request.path.defined THEN request.path.value
                                    ELSE <<>>).error # NoError
       IN /\ Len(response.content) = 1
          /\ response.content[1].type = "text"
          /\ response.isError <=> failed
          /\ response.isError =>
               /\ response.text.words \in ErrorTexts
               /\ scanned = <<>>
          /\ ~response.isError =>
               /\ response.text.words = <<>>
               /\ response.text.argument =
                    serializeTasksToJson(IF request.tool = "query_tasks" THEN selected
                                         ELSE tasks)

\* a request for a directory whose parent does not exist has been answered
\* with the error of resolvePath
C27_Witness ==
  /\ HasResponded
  /\ nodeEnv = "production"
  /\ HasValidArguments
  /\ response.isError
  /\ response.text.words = <<"Error:">> \o ParentError(<<>>).words

----------------------------------------------------------------------------
(* Claims about lines and ' and ', checked under SpecQuery *)

\* a clause of a query: not blank, not a comment, on one line
IsClause(c) == IsEffectiveLine(c) /\ ~Includes(c, <<"LF">>)

\* the query had two lines, and the result is that of the one line that
\* joins them with ' and ', for the pairs of clauses that ok accepts
LinesAsAnd(ok(_, _)) ==
  (op = "queryTasks" /\ Len(parts) = 2 /\ IsClause(parts[1]) /\ IsClause(parts[2])
     /\ ok(parts[1], parts[2]))
    => selected = queryTasks(tasks, parts[1] \o AND_LOWER \o parts[2])

\* C28 as claimed: for all clauses A and B that are not blank and not
\* comments, the query of the lines A and B returns what the one line
\* 'A and B' returns
C28_LinesAsAnd == LinesAsAnd(LAMBDA a, b : TRUE)

\* the clause has the word and at one of its ends
HasAndAtEnd(c) ==
  LET f == Trim(ToLowerCase(c))
  IN \/ f = <<"a", "n", "d">>
     \/ StartsWith(f, <<"a", "n", "d", " ">>)
     \/ Len(f) > 3 /\ SubSeq(f, Len(f) - 3, Len(f)) = <<" ", "a", "n", "d">>

\* C28, amended: the same for clauses A and B that, trimmed, neither start
\* nor end with the word and
C28_LinesAsAndWithoutAndAtEnds ==
  LinesAsAnd(LAMBDA a, b : ~HasAndAtEnd(a) /\ ~HasAndAtEnd(b))

\* the lines 'has tags or xyz' and 'not cancelled and text' have selected
\* some tasks and not all, as the one line that joins them does
C28_Witness ==
  /\ op = "queryTasks"
  /\ parts = <<HAS_TAGS \o OR_LOWER \o <<"x", "y", "z">>,
               NOT_PREFIX \o CANCELLED \o AND_LOWER \o <<"t", "e", "x", "t">>>>
  /\ Len(selected) > 0
  /\ Len(selected) < Len(tasks)
  /\ selected = queryTasks(tasks, parts[1] \o AND_LOWER \o parts[2])

----------------------------------------------------------------------------
(* Claims about the result of queryTasks, checked under SpecQuery *)

RECURSIVE IsSubsequence(_, _)
\* the members of a are members of b, in the order of b, each taken once
IsSubsequence(a, b) ==
  IF a = <<>> THEN TRUE
  ELSE IF b = <<>> THEN FALSE
  ELSE IF Head(a) = Head(b) THEN IsSubsequence(Tail(a), Tail(b))
  ELSE IsSubsequence(a, Tail(b))

\* the lines ls with the lines i and i + 1 in each other's place; every order
\* of the lines is reached by such exchanges, and every order of the lines of
\* a query of the model is a query of the model
Exchanged(ls, i) ==
  [k \in 1..Len(ls) |-> IF k = i THEN ls[i + 1] ELSE IF k = i + 1 THEN ls[i] ELSE ls[k]]

\* C29: queryTasks returns a subsequence of its input, the same records in
\* the same order, and leaves its input as it was; the same query applied to
\* its result returns the result, and the lines of the query in another
\* order give the same result
C29_ResultIsSubsequence ==
  /\ [](op = "queryTasks" =>
          /\ IsSubsequence(selected, tasks)
          /\ queryTasks(selected, queryText) = selected
          /\ \A i \in 1..(Len(parts) - 1) :
               queryTasks(tasks, JoinLines(Exchanged(parts, i))) = selected)
  /\ [][tasks' = tasks]_vars

\* a query of two different clauses has selected two tasks of a list of four
\* or more and rejected the others
C29_Witness ==
  /\ op = "queryTasks"
  /\ Len(parts) >= 2
  /\ IsEffectiveLine(parts[1])
  /\ IsEffectiveLine(parts[2])
  /\ parts[1] # parts[2]
  /\ Len(tasks) >= 4
  /\ \E i \in 1..Len(tasks) : \E j \in 1..Len(tasks) :
       i < j /\ selected = <<tasks[i], tasks[j]>>

----------------------------------------------------------------------------
(* Claims about files that cannot be read, checked under SpecBatch *)

\* the files of the batch that have been handed to extractTasksFromFile
FilesDone == Len(parts) - Len(pending)

\* the place of the file with the path p among the files found
FileIndex(p) == CHOOSE k \in 1..Len(parts) : parts[k].path = p

\* the lines of the file at place k
LinesOfFile(k) == Split(parts[k].content, <<"LF">>)

\* C30: a file that cannot be read gives no task and does not stop the
\* batch: after each file, allTasks holds the task of every task line of
\* every readable file read so far and nothing else, file after file in the
\* order the files were found, the tasks of a file by ascending line number
C30_UnreadableFilesAreSkipped ==
  /\ Len(readFiles) = FilesDone
  /\ \A i \in 1..Len(tasks) :
       LET k == FileIndex(tasks[i].filePath)
           n == tasks[i].lineNumber
       IN /\ k <= FilesDone
          /\ parts[k].readable
          /\ n < Len(LinesOfFile(k))
          /\ tasks[i] = parseTaskLine(LinesOfFile(k)[n + 1], parts[k].path, n)
  /\ \A k \in 1..FilesDone : \A n \in 1..Len(LinesOfFile(k)) :
       (parts[k].readable /\ parseTaskLine(LinesOfFile(k)[n], parts[k].path, n - 1) # Null)
         => \E i \in 1..Len(tasks) :
              tasks[i].filePath = parts[k].path /\ tasks[i].lineNumber = n - 1
  /\ \A i \in 1..Len(tasks) : \A j \in 1..Len(tasks) :
       i < j =>
         \/ FileIndex(tasks[i].filePath) < FileIndex(tasks[j].filePath)
         \/ /\ tasks[i].filePath = tasks[j].filePath
            /\ tasks[i].lineNumber < tasks[j].lineNumber

\* the first of two files could not be read, although it holds a task line,
\* and the two tasks of the second have been collected
C30_Witness ==
  /\ pending = <<>>
  /\ Len(parts) = 2
  /\ ~parts[1].readable
  /\ parseTasks(parts[1].content, parts[1].path) # <<>>
  /\ Len(tasks) = 2
  /\ tasks[1].filePath = parts[2].path
  /\ tasks[1].lineNumber < tasks[2].lineNumber

====
